---- MODULE Spec2Model ----
(***************************************************************************)
(* Messaging reliability layer of the hotel reservation server:            *)
(*   - RabbitMQConnection, the connection manager (rabbitmq/connection)    *)
(*   - handleStripeWebhook and the webhook event log (idempotency ledger)  *)
(*   - the retrying consumer protocol over a main/retry/dlq queue triple   *)
(*   - publishToQueue and publishBatchToQueue, the publisher               *)
(* Each component has its own specification over its own variables.        *)
(***************************************************************************)
EXTENDS Integers, Sequences, FiniteSets, TLC

(***************************************************************************)
(* Bounds of the model.                                                    *)
(***************************************************************************)
\* concurrent logical tasks of callers that may call into the connection manager
NProcs == 1
\* concurrent logical tasks that race on getChannel()
NGetters == 2
\* connections the broker accepts during one run
MaxConns == 1
\* channels the broker opens during one run
MaxChans == 2
\* calls into the connection manager that callers and reconnect timers make
\* during one run
MaxOps == 3
\* granularity of the model clock, in milliseconds
TickMs == 10000
\* webhook deliveries the provider makes during one run
NDeliveries == 2
\* messages published to the main queue during one run
MaxMsgs == 2
\* granularity of the clock of the retry queue, in milliseconds
RetryTickMs == 60000
\* consumer crashes during one run
MaxCrashes == 1
\* concurrent logical tasks that publish
NPubs == 1
\* publish calls during one run
MaxCalls == 2

\* task 0 runs the reconnect timer's callback, tasks 1..NProcs run the callers
\* of connect() and getChannel(), the next task runs the shutdown path, the
\* last NGetters tasks are the callers that race on getChannel()
TimerProc == 0
Callers == 1..NProcs
ShutdownProc == NProcs + 1
Getters == (ShutdownProc + 1)..(ShutdownProc + NGetters)
Procs == 0..(ShutdownProc + NGetters)
Names == {"publisher", "consumer"}

(***************************************************************************)
(* Program constants.                                                      *)
(***************************************************************************)
reconnectTimeInSeconds == 10

\* retry.maxRetries one above and one below the configured value
maxRetriesRaised == 5 + 1
maxRetriesLowered == 5 - 1

\* retry.maxRetries
maxRetries == 5

\* retry.delayMs
delayMs == 60000

VARIABLES
  connection,    \* this.connection: 0 is null, otherwise the connection's id
  channels,      \* this.channels: name -> channel id, 0 when not cached
  isConnecting,  \* this.isConnecting
  procs,         \* the logical tasks running connect() / getChannel()
  liveConns,     \* connections that are open at the broker
  handled,       \* connections on which connect() registered its handlers
  nextConn,      \* id of the next connection the broker hands out
  chans,         \* every channel ever opened: [conn, open, on, prefetch]
  timers,        \* pending reconnect timers: remaining delay in ms, oldest first
  errored,       \* open connections that have emitted an 'error' event
  nextOp,        \* calls into the connection manager started so far, plus one
  late,          \* tasks whose pending request was issued during the current turn
  ledger,        \* rows of webhook_event_logs
  deliveries,    \* the webhook requests: position in handleStripeWebhook, response
  handlerRuns,   \* eventId -> number of executions of the business handler
  queues,        \* queue name -> messages ready for delivery, oldest first
  consumer,      \* the retrying consumer: position and the unacknowledged message
  nextMsg,       \* id of the next message published
  handledOk,     \* ids of the messages acknowledged after a handler success
  failures,      \* message id -> handler failures so far
  retries,       \* message id -> times the message was put on the retry queue
  crashes,       \* consumer crashes so far
  retryWait,     \* remaining delay in ms of each message on the retry queue
  pub,           \* the logical tasks running publishToQueue / publishBatchToQueue
  sent,          \* the messages handed to channel.sendToQueue, oldest first
  bufferFull,    \* the channel's outbound buffer is above its high-water mark
  drains,        \* 'drain' events the channel has emitted
  nextUuid,      \* uuidv4() results handed out so far, plus one
  nextCall       \* publish calls started so far, plus one

connVars == <<connection, channels, isConnecting, procs, liveConns, handled,
              nextConn, chans, timers, errored, nextOp, late>>

whVars == <<ledger, deliveries, handlerRuns>>

consVars == <<queues, consumer, nextMsg, handledOk, failures, retries, crashes,
              retryWait>>

pubVars == <<pub, sent, bufferFull, drains, nextUuid, nextCall>>

vars == <<connVars, whVars, consVars, pubVars>>

(***************************************************************************)
(* Connection manager: RabbitMQConnection                                  *)
(***************************************************************************)
Idle ==
  [pc |-> "idle", op |-> "none", name |-> "", timer |-> FALSE,
   st |-> "none", val |-> 0, out |-> "none", res |-> 0, seen |-> {}]

NoChannels == [n \in Names |-> 0]

\* constructor
ConnInit ==
  /\ connection = 0
  /\ channels = NoChannels
  /\ isConnecting = FALSE
  /\ procs = [p \in Procs |-> Idle]
  /\ liveConns = {}
  /\ handled = {}
  /\ nextConn = 1
  /\ chans = <<>>
  /\ timers = <<>>
  /\ errored = {}
  /\ nextOp = 1
  /\ late = {}

\* tasks whose awaited promise has settled and whose continuation has not run
ReadyIn(ps) == {p \in Procs : ps[p].st \in {"ok", "err"}}

\* the event loop runs the continuations of the promises settled in a turn
\* before it reads from the socket again: the reply to a request that was
\* issued while a continuation was waiting to run arrives after that
\* continuation has run
Turn ==
  late' = IF ReadyIn(procs') = {}
            THEN {}
            ELSE {p \in Procs :
                    /\ procs'[p].st = "pending"
                    /\ \/ p \in late
                       \/ procs[p].st # "pending" /\ ReadyIn(procs) \ {p} # {}}

\* a task has called connection.close() on c: the client library then drops
\* every frame of c but the reply to the close
Closing(c) ==
  \E q \in Procs : /\ procs[q].pc = "cl_conn"
                   /\ procs[q].st = "pending"
                   /\ procs[q].val = c

\* a call that returns v to its caller; the timer callback drops the value
Returned(r, v) ==
  IF r.timer
    THEN Idle
    ELSE [r EXCEPT !.pc = "done", !.st = "none", !.val = 0, !.out = "returned",
                   !.res = v]

\* a call that throws to its caller; the timer callback logs the error
Threw(r) ==
  IF r.timer
    THEN Idle
    ELSE [r EXCEPT !.pc = "done", !.st = "none", !.val = 0, !.out = "threw",
                   !.res = 0]

\* caller tasks that are not inside a call; a new call runs on the first of them
Free == {p \in Callers : procs[p].pc \in {"idle", "done"}}

IsFirstFree(p) == p \in Free /\ \A q \in Free : p <= q

\* getChannel: this.connection.createChannel() on the handle conn; a null handle
\* raises a TypeError inside the try block, which is logged and rethrown
CreateChannelCall(r, conn) ==
  IF conn = 0
    THEN Threw(r)
    ELSE [r EXCEPT !.pc = "gc_create", !.st = "pending", !.val = conn]

\* connect() hands conn back: to the caller of connect(), or to getChannel,
\* which goes on to create the channel in the same turn of the event loop
AfterConnect(r, conn) ==
  IF r.op = "connect" THEN Returned(r, conn) ELSE CreateChannelCall(r, conn)

\* connect() without the isConnecting guard
ConnectCallUnguarded(p, r) ==
  IF connection # 0
    THEN /\ procs' = [procs EXCEPT ![p] = AfterConnect(r, connection)]
         /\ UNCHANGED isConnecting
    ELSE /\ isConnecting' = TRUE
         /\ procs' = [procs EXCEPT ![p] = [r EXCEPT !.pc = "c_await", !.st = "pending"]]

\* connect() up to its first await
ConnectCall(p, r) ==
  IF connection # 0
    THEN /\ procs' = [procs EXCEPT ![p] = AfterConnect(r, connection)]
         /\ UNCHANGED isConnecting
    ELSE IF isConnecting
      THEN /\ procs' = [procs EXCEPT ![p] = [r EXCEPT !.pc = "c_wait"]]
           /\ UNCHANGED isConnecting
      ELSE /\ isConnecting' = TRUE
           /\ procs' = [procs EXCEPT ![p] = [r EXCEPT !.pc = "c_await", !.st = "pending"]]

\* a caller invokes connect()
CallConnect(p) ==
  /\ IsFirstFree(p)
  /\ nextOp <= MaxOps
  /\ nextOp' = nextOp + 1
  /\ ConnectCall(p, [Idle EXCEPT !.op = "connect"])
  /\ UNCHANGED <<connection, channels, liveConns, handled, nextConn, chans, timers>>
  /\ UNCHANGED <<errored, whVars, consVars, pubVars>>
  /\ Turn

\* getChannel(name) that does not look into the cache
GetChannelCallUncached(p, r) ==
  IF connection = 0
    THEN ConnectCall(p, r)
    ELSE /\ procs' = [procs EXCEPT ![p] = CreateChannelCall(r, connection)]
         /\ UNCHANGED isConnecting

\* getChannel(name) up to its first await
GetChannelCall(p, r) ==
  IF channels[r.name] # 0
    THEN /\ procs' = [procs EXCEPT ![p] = Returned(r, channels[r.name])]
         /\ UNCHANGED isConnecting
    ELSE IF connection = 0
      THEN ConnectCall(p, r)
      ELSE /\ procs' = [procs EXCEPT ![p] = CreateChannelCall(r, connection)]
           /\ UNCHANGED isConnecting

\* a caller invokes getChannel(name)
CallGetChannel(p, n) ==
  /\ IsFirstFree(p)
  /\ nextOp <= MaxOps
  /\ nextOp' = nextOp + 1
  /\ GetChannelCall(p, [Idle EXCEPT !.op = "getChannel", !.name = n])
  /\ UNCHANGED <<connection, channels, liveConns, handled, nextConn, chans, timers>>
  /\ UNCHANGED <<errored, whVars, consVars, pubVars>>
  /\ Turn

\* the wait loop of connect(): a poll that finds isConnecting false returns
\* this.connection as it is then
PollWait(p) ==
  /\ procs[p].pc = "c_wait"
  /\ ~isConnecting
  /\ procs' = [procs EXCEPT ![p] = AfterConnect(procs[p], connection)]
  /\ UNCHANGED <<connection, channels, isConnecting, liveConns, handled, nextConn,
                 chans, timers>>
  /\ UNCHANGED <<errored, nextOp, whVars, consVars, pubVars>>
  /\ Turn

\* amqp.connect resolves: the broker has opened a connection
BrokerConnectOk(p) ==
  /\ procs[p].pc = "c_await"
  /\ procs[p].st = "pending"
  /\ p \notin late
  /\ nextConn <= MaxConns
  /\ procs' = [procs EXCEPT ![p] = [@ EXCEPT !.st = "ok", !.val = nextConn]]
  /\ liveConns' = liveConns \cup {nextConn}
  /\ nextConn' = nextConn + 1
  /\ UNCHANGED <<connection, channels, isConnecting, handled, chans, timers>>
  /\ UNCHANGED <<errored, nextOp, whVars, consVars, pubVars>>
  /\ Turn

\* amqp.connect rejects: the broker is unreachable
BrokerConnectFail(p) ==
  /\ procs[p].pc = "c_await"
  /\ procs[p].st = "pending"
  /\ p \notin late
  /\ procs' = [procs EXCEPT ![p] = [@ EXCEPT !.st = "err"]]
  /\ UNCHANGED <<connection, channels, isConnecting, liveConns, handled, nextConn,
                 chans, timers>>
  /\ UNCHANGED <<errored, nextOp, whVars, consVars, pubVars>>
  /\ Turn

\* connect() after its await: store the handle and register the handlers, or
\* rethrow; the finally block resets isConnecting either way
ConnectResume(p) ==
  /\ procs[p].pc = "c_await"
  /\ procs[p].st # "pending"
  /\ isConnecting' = FALSE
  /\ IF procs[p].st = "ok"
       THEN /\ connection' = procs[p].val
            /\ handled' = handled \cup {procs[p].val}
            /\ procs' = [procs EXCEPT ![p] = AfterConnect(procs[p], procs[p].val)]
       ELSE /\ procs' = [procs EXCEPT ![p] = Threw(procs[p])]
            /\ UNCHANGED <<connection, handled>>
  /\ UNCHANGED <<channels, liveConns, nextConn, chans, timers>>
  /\ UNCHANGED <<errored, nextOp, whVars, consVars, pubVars>>
  /\ Turn

\* the delay passed to setTimeout by the close handler, in ms
ReconnectDelayUnscaled == reconnectTimeInSeconds

ReconnectDelayMs == reconnectTimeInSeconds * 1000

\* channel handlers that leave the cache alone
EvictedByNone(cs) == {}

\* names evicted by the close handlers of the channels in cs
EvictedBy(cs) == {chans[c].on : c \in cs} \ {""}

\* pending broker operations of the tasks fail when their connection or channel goes
RejectPending(conns, cs) ==
  [p \in Procs |->
     IF /\ procs[p].st = "pending"
        /\ \/ procs[p].pc \in {"gc_create", "cl_conn"} /\ procs[p].val \in conns
           \/ procs[p].pc \in {"gc_prefetch", "cc_close", "cl_chan"}
                /\ procs[p].val \in cs
       THEN [procs[p] EXCEPT !.st = "err"]
       ELSE procs[p]]

\* the connection's close handler
OnConnectionClose(c, afterChannelHandlers) ==
  /\ connection' = 0
  /\ channels' = NoChannels
  /\ timers' = Append(timers, ReconnectDelayMs)

\* the tasks in ps see their pending operation resolve
Settle(rs, ps) ==
  [p \in Procs |-> IF p \in ps THEN [procs[p] EXCEPT !.st = "ok"] ELSE rs[p]]

\* connection c closes: its channels close with it (their close handlers run),
\* the pending connection.close() of the tasks in ps resolves, every other
\* pending operation on it fails, then its close handler runs
ConnectionCloses(c, ps) ==
  /\ liveConns' = liveConns \ {c}
  /\ LET cs == {i \in DOMAIN chans : chans[i].conn = c /\ chans[i].open}
         after == [n \in Names |-> IF n \in EvictedBy(cs) THEN 0 ELSE channels[n]]
     IN /\ chans' = [i \in DOMAIN chans |->
                       IF i \in cs THEN [chans[i] EXCEPT !.open = FALSE] ELSE chans[i]]
        /\ procs' = Settle(RejectPending({c}, cs), ps)
        /\ IF c \in handled
             THEN OnConnectionClose(c, after)
             ELSE /\ channels' = after
                  /\ UNCHANGED <<connection, timers>>
  /\ UNCHANGED <<isConnecting, handled, nextConn>>
  /\ errored' = errored \ {c}
  /\ UNCHANGED <<nextOp, whVars, consVars, pubVars>>
  /\ Turn

\* the broker closes connection c, or the connection to it is lost
ConnectionClose(c) ==
  /\ c \in liveConns
  /\ ConnectionCloses(c, {})

\* connection.createChannel() resolves with a new channel
ChannelOpenOk(p) ==
  /\ procs[p].pc = "gc_create"
  /\ procs[p].st = "pending"
  /\ p \notin late
  /\ procs[p].val \in liveConns
  /\ ~Closing(procs[p].val)
  /\ Len(chans) < MaxChans
  /\ chans' = Append(chans, [conn |-> procs[p].val, open |-> TRUE, on |-> "",
                             prefetch |-> 0])
  /\ procs' = [procs EXCEPT ![p] = [@ EXCEPT !.st = "ok", !.val = Len(chans) + 1]]
  /\ UNCHANGED <<connection, channels, isConnecting, liveConns, handled, nextConn,
                 timers>>
  /\ UNCHANGED <<errored, nextOp, whVars, consVars, pubVars>>
  /\ Turn

\* connection.createChannel() rejects: the handle is a closed connection
ChannelOpenFail(p) ==
  /\ procs[p].pc = "gc_create"
  /\ procs[p].st = "pending"
  /\ procs[p].val \notin liveConns
  /\ procs' = [procs EXCEPT ![p] = [@ EXCEPT !.st = "err"]]
  /\ UNCHANGED <<connection, channels, isConnecting, liveConns, handled, nextConn,
                 chans, timers>>
  /\ UNCHANGED <<errored, nextOp, whVars, consVars, pubVars>>
  /\ Turn

\* getChannel after createChannel: register the channel's handlers under the
\* name and call prefetch(1), or rethrow
CreateResume(p) ==
  /\ procs[p].pc = "gc_create"
  /\ procs[p].st # "pending"
  /\ IF procs[p].st = "ok"
       THEN /\ chans' = [chans EXCEPT ![procs[p].val].on = procs[p].name]
            /\ procs' = [procs EXCEPT ![p] =
                           IF chans[procs[p].val].open
                             THEN [@ EXCEPT !.pc = "gc_prefetch", !.st = "pending"]
                             ELSE Threw(@)]
       ELSE /\ procs' = [procs EXCEPT ![p] = Threw(procs[p])]
            /\ UNCHANGED chans
  /\ UNCHANGED <<connection, channels, isConnecting, liveConns, handled, nextConn,
                 timers>>
  /\ UNCHANGED <<errored, nextOp, whVars, consVars, pubVars>>
  /\ Turn

\* channel.prefetch resolves without a prefetch count being set on the channel
PrefetchOkUnset(p) ==
  /\ procs[p].pc = "gc_prefetch"
  /\ procs[p].st = "pending"
  /\ p \notin late
  /\ chans[procs[p].val].open
  /\ ~Closing(chans[procs[p].val].conn)
  /\ procs' = [procs EXCEPT ![p] = [@ EXCEPT !.st = "ok"]]
  /\ UNCHANGED <<connection, channels, isConnecting, liveConns, handled, nextConn,
                 chans, timers>>
  /\ UNCHANGED <<errored, nextOp, whVars, consVars, pubVars>>
  /\ Turn

\* channel.prefetch(1) resolves
PrefetchOk(p) ==
  /\ procs[p].pc = "gc_prefetch"
  /\ procs[p].st = "pending"
  /\ p \notin late
  /\ chans[procs[p].val].open
  /\ ~Closing(chans[procs[p].val].conn)
  /\ chans' = [chans EXCEPT ![procs[p].val].prefetch = 1]
  /\ procs' = [procs EXCEPT ![p] = [@ EXCEPT !.st = "ok"]]
  /\ UNCHANGED <<connection, channels, isConnecting, liveConns, handled, nextConn,
                 timers>>
  /\ UNCHANGED <<errored, nextOp, whVars, consVars, pubVars>>
  /\ Turn

\* getChannel after prefetch: cache the channel under the name and return it
PrefetchResume(p) ==
  /\ procs[p].pc = "gc_prefetch"
  /\ procs[p].st # "pending"
  /\ IF procs[p].st = "ok"
       THEN /\ channels' = [channels EXCEPT ![procs[p].name] = procs[p].val]
            /\ procs' = [procs EXCEPT ![p] = Returned(procs[p], procs[p].val)]
       ELSE /\ procs' = [procs EXCEPT ![p] = Threw(procs[p])]
            /\ UNCHANGED channels
  /\ UNCHANGED <<connection, isConnecting, liveConns, handled, nextConn, chans, timers>>
  /\ UNCHANGED <<errored, nextOp, whVars, consVars, pubVars>>
  /\ Turn

\* channel c closes: its error/close handler evicts the name it was registered
\* under, the pending channel.close() of the tasks in ps resolves and every
\* other pending operation on it fails
ChannelCloses(c, ps) ==
  /\ chans' = [chans EXCEPT ![c].open = FALSE]
  /\ procs' = Settle(RejectPending({}, {c}), ps)
  /\ channels' = [n \in Names |-> IF n \in EvictedBy({c}) THEN 0 ELSE channels[n]]
  /\ UNCHANGED <<connection, isConnecting, liveConns, handled, nextConn, timers>>
  /\ UNCHANGED <<errored, nextOp, whVars, consVars, pubVars>>
  /\ Turn

\* a channel fails or is closed by the broker
ChannelClose(c) ==
  /\ c \in DOMAIN chans
  /\ chans[c].open
  /\ ChannelCloses(c, {})

\* the reconnect timer set by the close handler expires and calls connect()
TimerFire(p) ==
  /\ p = TimerProc
  /\ procs[p].pc = "idle"
  /\ timers # <<>>
  /\ Head(timers) = 0
  /\ timers' = Tail(timers)
  /\ nextOp <= MaxOps
  /\ nextOp' = nextOp + 1
  /\ ConnectCall(p, [Idle EXCEPT !.op = "connect", !.timer = TRUE])
  /\ UNCHANGED <<connection, channels, liveConns, handled, nextConn, chans>>
  /\ UNCHANGED <<errored, whVars, consVars, pubVars>>
  /\ Turn

\* time passes
Tick ==
  /\ \E i \in DOMAIN timers : timers[i] > 0
  /\ timers' = [i \in DOMAIN timers |->
                  IF timers[i] > TickMs THEN timers[i] - TickMs ELSE 0]
  /\ UNCHANGED <<connection, channels, isConnecting, procs, liveConns, handled,
                 nextConn, chans>>
  /\ UNCHANGED <<errored, nextOp, whVars, consVars, pubVars>>
  /\ Turn

ConnNext ==
  \/ \E p \in Procs : CallConnect(p)
  \/ \E p \in Procs, n \in Names : CallGetChannel(p, n)
  \/ \E p \in Procs : PollWait(p)
  \/ \E p \in Procs : BrokerConnectOk(p)
  \/ \E p \in Procs : BrokerConnectFail(p)
  \/ \E p \in Procs : ConnectResume(p)
  \/ \E c \in liveConns : ConnectionClose(c)
  \/ \E p \in Procs : ChannelOpenOk(p)
  \/ \E p \in Procs : ChannelOpenFail(p)
  \/ \E p \in Procs : CreateResume(p)
  \/ \E p \in Procs : PrefetchOk(p)
  \/ \E p \in Procs : PrefetchResume(p)
  \/ \E c \in DOMAIN chans : ChannelClose(c)
  \/ \E p \in Procs : TimerFire(p)
  \/ Tick

\* the connection's error handler with the effect of the close handler
OnConnectionErrorDrops(c) ==
  /\ connection' = 0
  /\ channels' = NoChannels
  /\ UNCHANGED timers

\* the connection's error handler: it logs the error
OnConnectionError(c) == UNCHANGED <<connection, channels, timers>>

\* a connection on which connect() registered its handlers emits 'error'
ConnectionError(c) ==
  /\ c \in liveConns
  /\ c \in handled
  /\ c \notin errored
  /\ errored' = errored \cup {c}
  /\ OnConnectionError(c)
  /\ UNCHANGED <<isConnecting, procs, liveConns, handled, nextConn, chans>>
  /\ UNCHANGED <<nextOp, whVars, consVars, pubVars>>
  /\ Turn

\* isConnected()
isConnected == connection # 0

\* closeChannel(name) up to its await: nothing to do without a cached channel
CloseChannelCall(r) ==
  IF channels[r.name] = 0
    THEN Returned(r, 0)
    ELSE [r EXCEPT !.pc = "cc_close", !.st = "pending", !.val = channels[r.name]]

\* the shutdown path invokes closeChannel(name)
CallCloseChannel(p, n) ==
  /\ p = ShutdownProc
  /\ nextOp <= MaxOps
  /\ nextOp' = nextOp + 1
  /\ procs[p].pc \in {"idle", "done"}
  /\ procs' = [procs EXCEPT ![p] =
                 CloseChannelCall([Idle EXCEPT !.op = "closeChannel", !.name = n])]
  /\ UNCHANGED <<connection, channels, isConnecting, liveConns, handled, nextConn,
                 chans, timers>>
  /\ UNCHANGED <<errored, whVars, consVars, pubVars>>
  /\ Turn

\* the shutdown path invokes the publisher's disconnectPublisher(), which calls
\* closeChannel('publisher') inside a try block of its own
CallDisconnectPublisher(p) ==
  /\ p = ShutdownProc
  /\ nextOp <= MaxOps
  /\ nextOp' = nextOp + 1
  /\ procs[p].pc \in {"idle", "done"}
  /\ procs' = [procs EXCEPT ![p] =
                 CloseChannelCall([Idle EXCEPT !.op = "disconnectPublisher",
                                               !.name = "publisher"])]
  /\ UNCHANGED <<connection, channels, isConnecting, liveConns, handled, nextConn,
                 chans, timers>>
  /\ UNCHANGED <<errored, whVars, consVars, pubVars>>
  /\ Turn

\* channel.close() resolves: the channel is closed and emits 'close'
ChannelCloseOk(p) ==
  /\ procs[p].pc \in {"cc_close", "cl_chan"}
  /\ procs[p].st = "pending"
  /\ p \notin late
  /\ chans[procs[p].val].open
  /\ ~Closing(chans[procs[p].val].conn)
  /\ ChannelCloses(procs[p].val, {p})

\* channel.close() rejects: the channel is closed already
ChannelCloseFail(p) ==
  /\ procs[p].pc \in {"cc_close", "cl_chan"}
  /\ procs[p].st = "pending"
  /\ ~chans[procs[p].val].open
  /\ procs' = [procs EXCEPT ![p] = [@ EXCEPT !.st = "err"]]
  /\ UNCHANGED <<connection, channels, isConnecting, liveConns, handled, nextConn,
                 chans, timers>>
  /\ UNCHANGED <<errored, nextOp, whVars, consVars, pubVars>>
  /\ Turn

\* closeChannel after channel.close() that clears the whole cache
AfterChannelCloseClear(ok, n) == NoChannels

\* closeChannel after channel.close(): the entry is deleted inside the try
\* block, after the await; the catch block only logs
AfterChannelClose(ok, n) == IF ok THEN [channels EXCEPT ![n] = 0] ELSE channels

\* closeChannel after its await; it returns either way
CloseChannelResume(p) ==
  /\ procs[p].pc = "cc_close"
  /\ procs[p].st # "pending"
  /\ channels' = AfterChannelClose(procs[p].st = "ok", procs[p].name)
  /\ procs' = [procs EXCEPT ![p] = Returned(@, 0)]
  /\ UNCHANGED <<connection, isConnecting, liveConns, handled, nextConn, chans, timers>>
  /\ UNCHANGED <<errored, nextOp, whVars, consVars, pubVars>>
  /\ Turn

\* close() that goes on to the connection without visiting the channels
CloseLoopSkip(p, r) ==
  /\ channels' = NoChannels
  /\ procs' = [procs EXCEPT ![p] =
                 IF connection # 0
                   THEN [r EXCEPT !.pc = "cl_conn", !.st = "pending",
                                  !.val = connection]
                   ELSE Returned(r, 0)]

\* close() at the head of its loop over this.channels.entries(): the iterator is
\* live, so the next entry is one cached now that the loop has not visited; past
\* the loop the cache is cleared and connection.close() is called on the handle
CloseLoop(p, r) ==
  LET todo == {n \in Names : channels[n] # 0 /\ n \notin r.seen}
  IN IF todo # {}
       THEN /\ \E n \in todo :
                 procs' = [procs EXCEPT ![p] =
                             [r EXCEPT !.pc = "cl_chan", !.st = "pending", !.name = n,
                                       !.val = channels[n], !.seen = @ \cup {n}]]
            /\ UNCHANGED channels
       ELSE /\ channels' = NoChannels
            /\ procs' = [procs EXCEPT ![p] =
                           IF connection # 0
                             THEN [r EXCEPT !.pc = "cl_conn", !.st = "pending",
                                            !.val = connection]
                             ELSE Returned(r, 0)]

\* the shutdown path invokes close()
CallClose(p) ==
  /\ p = ShutdownProc
  /\ nextOp <= MaxOps
  /\ nextOp' = nextOp + 1
  /\ procs[p].pc \in {"idle", "done"}
  /\ CloseLoop(p, [Idle EXCEPT !.op = "close"])
  /\ UNCHANGED <<connection, isConnecting, liveConns, handled, nextConn, chans, timers>>
  /\ UNCHANGED <<errored, whVars, consVars, pubVars>>
  /\ Turn

\* close() after one channel.close(): the outcome is logged and the loop goes on
CloseLoopResume(p) ==
  /\ procs[p].pc = "cl_chan"
  /\ procs[p].st # "pending"
  /\ CloseLoop(p, procs[p])
  /\ UNCHANGED <<connection, isConnecting, liveConns, handled, nextConn, chans, timers>>
  /\ UNCHANGED <<errored, nextOp, whVars, consVars, pubVars>>
  /\ Turn

\* connection.close() resolves: the connection is closed and emits 'close'
ConnCloseOk(p) ==
  /\ procs[p].pc = "cl_conn"
  /\ procs[p].st = "pending"
  /\ p \notin late
  /\ procs[p].val \in liveConns
  /\ ConnectionCloses(procs[p].val, {p})

\* connection.close() rejects: the connection is closed already
ConnCloseFail(p) ==
  /\ procs[p].pc = "cl_conn"
  /\ procs[p].st = "pending"
  /\ procs[p].val \notin liveConns
  /\ procs' = [procs EXCEPT ![p] = [@ EXCEPT !.st = "err"]]
  /\ UNCHANGED <<connection, channels, isConnecting, liveConns, handled, nextConn,
                 chans, timers>>
  /\ UNCHANGED <<errored, nextOp, whVars, consVars, pubVars>>
  /\ Turn

\* close() after connection.close(): the handle is reset, or the outer catch
\* block logs the error and rethrows it
CloseResume(p) ==
  /\ procs[p].pc = "cl_conn"
  /\ procs[p].st # "pending"
  /\ IF procs[p].st = "ok"
       THEN /\ connection' = 0
            /\ procs' = [procs EXCEPT ![p] = Returned(@, 0)]
       ELSE /\ procs' = [procs EXCEPT ![p] = Threw(@)]
            /\ UNCHANGED connection
  /\ UNCHANGED <<channels, isConnecting, liveConns, handled, nextConn, chans, timers>>
  /\ UNCHANGED <<errored, nextOp, whVars, consVars, pubVars>>
  /\ Turn

\* one of the racing tasks calls getChannel(n) while the others may be inside
\* their own calls
CallGetChannelConcurrently(p, n) ==
  /\ p \in Getters
  /\ procs[p].pc \in {"idle", "done"}
  /\ \A q \in Getters : procs[q].pc \in {"idle", "done"} => p <= q
  /\ nextOp <= MaxOps
  /\ nextOp' = nextOp + 1
  /\ GetChannelCall(p, [Idle EXCEPT !.op = "getChannel", !.name = n])
  /\ UNCHANGED <<connection, channels, liveConns, handled, nextConn, chans, timers>>
  /\ UNCHANGED <<errored, whVars, consVars, pubVars>>
  /\ Turn

\* getChannel() under concurrent callers, with the broker
GetChannelNext ==
  \/ \E p \in Procs, n \in Names : CallGetChannelConcurrently(p, n)
  \/ \E p \in Procs : PollWait(p)
  \/ \E p \in Procs : BrokerConnectOk(p)
  \/ \E p \in Procs : BrokerConnectFail(p)
  \/ \E p \in Procs : ConnectResume(p)
  \/ \E c \in liveConns : ConnectionClose(c)
  \/ \E p \in Procs : ChannelOpenOk(p)
  \/ \E p \in Procs : ChannelOpenFail(p)
  \/ \E p \in Procs : CreateResume(p)
  \/ \E p \in Procs : PrefetchOk(p)
  \/ \E p \in Procs : PrefetchResume(p)
  \/ \E c \in DOMAIN chans : ChannelClose(c)

\* the connection manager with its reconnect timers and its shutdown path
ManagerNext ==
  \/ \E p \in Procs : CallConnect(p)
  \/ \E p \in Procs, n \in Names : CallGetChannel(p, n)
  \/ \E p \in Procs : PollWait(p)
  \/ \E p \in Procs : BrokerConnectOk(p)
  \/ \E p \in Procs : BrokerConnectFail(p)
  \/ \E p \in Procs : ConnectResume(p)
  \/ \E c \in liveConns : ConnectionClose(c)
  \/ \E p \in Procs : ChannelOpenOk(p)
  \/ \E p \in Procs : ChannelOpenFail(p)
  \/ \E p \in Procs : CreateResume(p)
  \/ \E p \in Procs : PrefetchOk(p)
  \/ \E p \in Procs : PrefetchResume(p)
  \/ \E c \in DOMAIN chans : ChannelClose(c)
  \/ \E c \in liveConns : ConnectionError(c)
  \/ \E p \in Procs, n \in Names : CallCloseChannel(p, n)
  \/ \E p \in Procs : CallDisconnectPublisher(p)
  \/ \E p \in Procs : ChannelCloseOk(p)
  \/ \E p \in Procs : ChannelCloseFail(p)
  \/ \E p \in Procs : CloseChannelResume(p)
  \/ \E p \in Procs : CallClose(p)
  \/ \E p \in Procs : CloseLoopResume(p)
  \/ \E p \in Procs : ConnCloseOk(p)
  \/ \E p \in Procs : ConnCloseFail(p)
  \/ \E p \in Procs : CloseResume(p)
  \/ \E p \in Procs : TimerFire(p)
  \/ Tick

(***************************************************************************)
(* Idempotency ledger: WebhookEventLogRepository over webhook_event_logs   *)
(***************************************************************************)
EventIds == {"evt_1", "evt_2", "evt_3"}
Statuses == {"processing", "processed", "failed"}
Deliveries == 1..NDeliveries

\* findByEventId: the row of the event, if any
FindByEventId(e) == {r \in ledger : r.event_id = e}

\* the adapter's isDuplicate: a row for the event exists
isDuplicate(e) == FindByEventId(e) # {}

\* the status the adapter's logEvent gives the row it creates
logEventStatus == "processing"

\* the storage layer accepts any number of rows per event_id
NoUniqueIndex(e) == FALSE

\* the unique index on event_id rejects a second row for the same event
UniqueViolation(e) == FindByEventId(e) # {}

\* create: the status given, 'processed' when none is given ("" is none)
RowStatus(status) == IF status = "" THEN "processed" ELSE status

\* the row create(data) inserts
NewRow(e, status, msg) ==
  [row |-> Cardinality(ledger) + 1, event_id |-> e, status |-> RowStatus(status),
   error_message |-> msg]

\* updateStatus: every row of the event takes the status and the message
UpdatedRows(e, status, msg) ==
  {IF r.event_id = e THEN [r EXCEPT !.status = status, !.error_message = msg] ELSE r
     : r \in ledger}

\* a caller of the repository creates a row
RepoCreate(e, status, msg) ==
  /\ ~UniqueViolation(e)
  /\ ledger' = ledger \cup {NewRow(e, status, msg)}
  /\ UNCHANGED <<connVars, deliveries, handlerRuns, consVars, pubVars>>

\* a caller of the repository updates the status of an event
RepoUpdateStatus(e, status, msg) ==
  /\ ledger' = UpdatedRows(e, status, msg)
  /\ UNCHANGED <<connVars, deliveries, handlerRuns, consVars, pubVars>>

LedgerNext ==
  \/ \E e \in EventIds, st \in {"", "processing"}, msg \in {"", "boom"} :
       RepoCreate(e, st, msg)
  \/ \E e \in EventIds, st \in Statuses, msg \in {"", "boom"} :
       RepoUpdateStatus(e, st, msg)

(***************************************************************************)
(* Webhook entry point: handleStripeWebhook                                *)
(***************************************************************************)
NewDelivery ==
  [pc |-> "new", eventId |-> "", http |-> 0, dup |-> FALSE, err |-> "none",
   message |-> <<>>, ran |-> FALSE, after |-> {}, notify |-> "none"]

WhInit ==
  /\ ledger = {}
  /\ deliveries = [d \in Deliveries |-> NewDelivery]
  /\ handlerRuns = [e \in EventIds |-> 0]

\* error.message.includes(word); a message is the sequence of its words
includes(message, word) == \E i \in DOMAIN message : message[i] = word

\* the message of the error verifyAndParse throws on a failed verification
VerifyError == <<"invalid", "signature">>

\* the message of the error the storage layer throws on a duplicate event_id
UniqueError == <<"validation", "error">>

\* messages of the errors a business handler may throw
HandlerErrors == {<<"payment", "not", "found">>, <<"payout", "signature", "mismatch">>}

\* the catch block: 400 when the message mentions the signature, else 500; err
\* names the step that threw
Failed(r, err, message) ==
  [r EXCEPT !.pc = "done", !.err = err, !.message = message,
            !.http = IF includes(message, "signature") THEN 400 ELSE 500]

\* the provider sends a request; verifyAndParse checks its signature
WhVerify(d, e, sigOk) ==
  /\ deliveries[d].pc = "new"
  /\ \A q \in Deliveries : q < d => deliveries[q].pc # "new"
  /\ LET r == [deliveries[d] EXCEPT
                 !.eventId = e,
                 !.after = {q \in Deliveries : deliveries[q].pc = "done"}]
     IN deliveries' = [deliveries EXCEPT ![d] =
                         IF sigOk THEN [r EXCEPT !.pc = "check"]
                                  ELSE Failed(r, "signature", VerifyError)]
  /\ UNCHANGED <<connVars, ledger, handlerRuns, consVars, pubVars>>

\* isDuplicate: a row for the event answers 200 with the duplicate indicator
WhIsDuplicate(d) ==
  /\ deliveries[d].pc = "check"
  /\ deliveries' = [deliveries EXCEPT ![d] =
                      IF isDuplicate(@.eventId)
                        THEN [@ EXCEPT !.pc = "done", !.http = 200, !.dup = TRUE]
                        ELSE [@ EXCEPT !.pc = "log"]]
  /\ UNCHANGED <<connVars, ledger, handlerRuns, consVars, pubVars>>

\* a failed logEvent is swallowed and the event is routed all the same
AfterLogEventSwallow(r, created) == [r EXCEPT !.pc = "route"]

\* the step after logEvent: its error reaches the catch block
AfterLogEvent(r, created) ==
  IF created THEN [r EXCEPT !.pc = "route"] ELSE Failed(r, "unique", UniqueError)

\* logEvent is started but not awaited: the event is routed before the record
\* exists
WhLogEventNotAwaited(d) ==
  /\ deliveries[d].pc = "log"
  /\ deliveries' = [deliveries EXCEPT ![d] = [@ EXCEPT !.pc = "route"]]
  /\ UNCHANGED <<connVars, ledger, handlerRuns, consVars, pubVars>>

\* logEvent: record the event with status 'processing' before handling it
WhLogEvent(d) ==
  /\ deliveries[d].pc = "log"
  /\ LET e == deliveries[d].eventId
         created == ~UniqueViolation(e)
     IN /\ ledger' = IF created THEN ledger \cup {NewRow(e, logEventStatus, "")}
                                ELSE ledger
        /\ deliveries' = [deliveries EXCEPT ![d] = AfterLogEvent(@, created)]
  /\ UNCHANGED <<connVars, handlerRuns, consVars, pubVars>>

\* routeWebhookEvent runs the business handler; a handler that completes may
\* have started its notification task, which it does not await; a handler that
\* raised sends 400 or 500 from the catch block
WhRoute(d, ok, starts) ==
  /\ deliveries[d].pc = "route"
  /\ handlerRuns' = [handlerRuns EXCEPT ![deliveries[d].eventId] = @ + 1]
  /\ \E message \in HandlerErrors :
       deliveries' = [deliveries EXCEPT ![d] =
                        IF ok THEN [@ EXCEPT !.pc = "respond", !.ran = TRUE,
                                             !.notify = IF starts THEN "running" ELSE "none"]
                              ELSE [Failed(@, "handler", message) EXCEPT !.ran = TRUE]]
  /\ UNCHANGED <<connVars, ledger, consVars, pubVars>>

\* the handler has returned: the response 200 is sent
WhRespond(d) ==
  /\ deliveries[d].pc = "respond"
  /\ deliveries' = [deliveries EXCEPT ![d] = [@ EXCEPT !.pc = "done", !.http = 200]]
  /\ UNCHANGED <<connVars, ledger, handlerRuns, consVars, pubVars>>

\* the notification task is awaited and its error is rethrown: it reaches the
\* catch block of a call that has not answered yet
OnNotifyEndRethrown(r, delivered) ==
  IF delivered THEN [r EXCEPT !.notify = "sent"]
  ELSE IF r.pc = "done" THEN [r EXCEPT !.notify = "dropped"]
  ELSE [Failed(r, "notify", <<"smtp", "unreachable">>) EXCEPT !.notify = "dropped"]

\* the end of the notification task: an error of an email or of a socket
\* notification is caught inside the task, logged and dropped
OnNotifyEnd(r, delivered) == [r EXCEPT !.notify = IF delivered THEN "sent" ELSE "dropped"]

\* the detached notification task ends, before or after the response
WhNotifyEnd(d, delivered) ==
  /\ deliveries[d].notify = "running"
  /\ deliveries' = [deliveries EXCEPT ![d] = OnNotifyEnd(@, delivered)]
  /\ UNCHANGED <<connVars, ledger, handlerRuns, consVars, pubVars>>

WebhookNext ==
  \/ \E d \in Deliveries, e \in EventIds, sigOk \in BOOLEAN : WhVerify(d, e, sigOk)
  \/ \E d \in Deliveries : WhIsDuplicate(d)
  \/ \E d \in Deliveries : WhLogEvent(d)
  \/ \E d \in Deliveries, ok \in BOOLEAN, starts \in BOOLEAN : WhRoute(d, ok, starts)
  \/ \E d \in Deliveries : WhRespond(d)
  \/ \E d \in Deliveries, delivered \in BOOLEAN : WhNotifyEnd(d, delivered)

(***************************************************************************)
(* Queue topology and the retrying consumer                                *)
(***************************************************************************)
\* QUEUES.imageProcessing
imageProcessing == "image.processing"

\* queuesFor with a dead-letter suffix other than ".dlq"
queuesForDead(baseQueue) ==
  [main |-> baseQueue, retry |-> baseQueue \o ".retry", dlq |-> baseQueue \o ".dead"]

\* queuesFor: the main, retry and dead-letter queue names of a base queue
queuesFor(baseQueue) ==
  [main |-> baseQueue, retry |-> baseQueue \o ".retry", dlq |-> baseQueue \o ".dlq"]

Triple == queuesFor(imageProcessing)
QueueNames == {Triple.main, Triple.retry, Triple.dlq}

\* payloads a caller may publish
Payloads == {"o1", "o2"}

\* the payload of the id-th message published: the callers alternate
PayloadOf(id) == IF id % 2 = 1 THEN "o1" ELSE "o2"

\* consumerOptions.noAck set, so that the broker acknowledges on delivery
noAckAuto == TRUE

\* consumerOptions.noAck
noAck == FALSE

NoMessage == [id |-> 0, payload |-> "", retryCount |-> 0, origQueue |-> ""]

ConsInit ==
  /\ queues = [q \in QueueNames |-> <<>>]
  /\ consumer = [pc |-> "idle", msg |-> NoMessage]
  /\ nextMsg = 1
  /\ handledOk = {}
  /\ failures = [id \in 1..MaxMsgs |-> 0]
  /\ retries = [id \in 1..MaxMsgs |-> 0]
  /\ crashes = 0
  /\ retryWait = <<>>

\* a message is published to the main queue with retryCount 0
CPublish ==
  /\ nextMsg <= MaxMsgs
  /\ queues' = [queues EXCEPT ![Triple.main] =
                  Append(@, [id |-> nextMsg, payload |-> PayloadOf(nextMsg),
                             retryCount |-> 0, origQueue |-> ""])]
  /\ nextMsg' = nextMsg + 1
  /\ UNCHANGED <<connVars, whVars, pubVars, retryWait, consumer, handledOk, failures,
                 retries, crashes>>

\* the broker delivers the head of the main queue; with noAck=false and a
\* prefetch of 1 the consumer holds it unacknowledged until it acks
CDeliver ==
  /\ consumer.pc = "idle"
  /\ queues[Triple.main] # <<>>
  /\ consumer' = [pc |-> "handling", msg |-> Head(queues[Triple.main])]
  /\ queues' = [queues EXCEPT ![Triple.main] = Tail(@)]
  /\ UNCHANGED <<connVars, whVars, pubVars, retryWait, nextMsg, handledOk, failures,
                 retries, crashes>>

\* the handler succeeds: the message is acknowledged
CHandlerOk ==
  /\ consumer.pc = "handling"
  /\ handledOk' = handledOk \cup {consumer.msg.id}
  /\ consumer' = [pc |-> "idle", msg |-> NoMessage]
  /\ UNCHANGED <<connVars, whVars, pubVars, retryWait, queues, nextMsg, failures,
                 retries, crashes>>

\* a failed message goes back to the retry queue whatever its retryCount
RouteFailedAlwaysRetry(m) ==
  [queues EXCEPT ![Triple.retry] =
     Append(@, [m EXCEPT !.retryCount = @ + 1, !.origQueue = Triple.main])]

\* a failed message at the retry limit is dead-lettered and also put back on
\* the retry queue
RouteFailedBoth(m) ==
  IF m.retryCount < maxRetries
    THEN [queues EXCEPT ![Triple.retry] =
            Append(@, [m EXCEPT !.retryCount = @ + 1, !.origQueue = Triple.main])]
    ELSE [queues EXCEPT ![Triple.dlq] = Append(@, m),
                        ![Triple.retry] = Append(@, [m EXCEPT !.origQueue = Triple.main])]

\* where a failed message goes: the retry queue with retryCount+1 and the
\* original-queue header, or the dead-letter queue unchanged
RouteFailed(m) ==
  IF m.retryCount < maxRetries
    THEN [queues EXCEPT ![Triple.retry] =
            Append(@, [m EXCEPT !.retryCount = @ + 1, !.origQueue = Triple.main])]
    ELSE [queues EXCEPT ![Triple.dlq] = Append(@, m)]

\* the handler fails and the message is acknowledged before it is republished
OnHandlerFailedAckFirst(m) ==
  /\ queues' = queues
  /\ consumer' = [pc |-> "routed", msg |-> NoMessage]

\* the handler fails, the message is republished and the consumer stops
OnHandlerFailedStops(m) ==
  /\ queues' = RouteFailed(m)
  /\ consumer' = [pc |-> "stopped", msg |-> m]

\* the handler fails: the message is republished and stays unacknowledged
OnHandlerFailed(m) ==
  /\ queues' = RouteFailed(m)
  /\ consumer' = [pc |-> "routed", msg |-> m]

\* failures counts the handler failures of a message, retries the times it
\* was put on the retry queue
CHandlerFail ==
  /\ consumer.pc = "handling"
  /\ OnHandlerFailed(consumer.msg)
  /\ failures' = [failures EXCEPT ![consumer.msg.id] = @ + 1]
  /\ retries' = [retries EXCEPT ![consumer.msg.id] =
                   @ + Len(queues'[Triple.retry]) - Len(queues[Triple.retry])]
  /\ retryWait' = IF Len(queues'[Triple.retry]) > Len(queues[Triple.retry])
                    THEN Append(retryWait, delayMs)
                    ELSE retryWait
  /\ UNCHANGED <<connVars, whVars, pubVars, nextMsg, handledOk, crashes>>

\* the failed message is acknowledged off the queue it was delivered from
CAck ==
  /\ consumer.pc = "routed"
  /\ consumer' = [pc |-> "idle", msg |-> NoMessage]
  /\ UNCHANGED <<connVars, whVars, pubVars, retryWait, queues, nextMsg, handledOk,
                 failures, retries, crashes>>

\* the broker moves the head of the retry queue back to the queue named by
\* its original-queue header without waiting for its delay
CRedeliverUntimed ==
  /\ queues[Triple.retry] # <<>>
  /\ LET m == Head(queues[Triple.retry])
     IN queues' = [queues EXCEPT ![Triple.retry] = Tail(@),
                                 ![m.origQueue] = Append(@, m)]
  /\ retryWait' = Tail(retryWait)
  /\ UNCHANGED <<connVars, whVars, pubVars, consumer, nextMsg, handledOk,
                 failures, retries, crashes>>

\* the retry delay of the head of the retry queue has elapsed: the broker
\* moves it back to the queue named by its original-queue header
CRedeliver ==
  /\ queues[Triple.retry] # <<>>
  /\ Head(retryWait) = 0
  /\ LET m == Head(queues[Triple.retry])
     IN queues' = [queues EXCEPT ![Triple.retry] = Tail(@),
                                 ![m.origQueue] = Append(@, m)]
  /\ retryWait' = Tail(retryWait)
  /\ UNCHANGED <<connVars, whVars, pubVars, consumer, nextMsg, handledOk,
                 failures, retries, crashes>>

\* time passes for the messages waiting on the retry queue
CTick ==
  /\ \E i \in DOMAIN retryWait : retryWait[i] > 0
  /\ retryWait' = [i \in DOMAIN retryWait |->
                     IF retryWait[i] > RetryTickMs THEN retryWait[i] - RetryTickMs ELSE 0]
  /\ UNCHANGED <<connVars, whVars, pubVars, queues, consumer, nextMsg, handledOk,
                 failures, retries, crashes>>

\* the consumer process dies while it holds a delivery: with manual
\* acknowledgment the broker puts the unacknowledged message back at the front
\* of the queue it was delivered from; a delivery acknowledged on receipt is gone
CCrash ==
  /\ crashes < MaxCrashes
  /\ consumer.pc \in {"handling", "routed"}
  /\ queues' = IF noAck \/ consumer.msg = NoMessage
                 THEN queues
                 ELSE [queues EXCEPT ![Triple.main] = <<consumer.msg>> \o @]
  /\ consumer' = [pc |-> "idle", msg |-> NoMessage]
  /\ crashes' = crashes + 1
  /\ UNCHANGED <<connVars, whVars, pubVars, retryWait, nextMsg, handledOk, failures, retries>>

ConsumerNext ==
  \/ CPublish
  \/ CDeliver
  \/ CHandlerOk
  \/ CHandlerFail
  \/ CAck
  \/ CRedeliver
  \/ CTick

ConsumerCrashNext ==
  \/ ConsumerNext
  \/ CCrash

(***************************************************************************)
(* Publisher: publishToQueue and publishBatchToQueue                       *)
(***************************************************************************)
PubProcs == 1..NPubs

\* messageId = null, the default of the parameter
Null == "<null>"

\* the values of messageId for which `messageId || uuidv4()` takes the right side
Falsy == {Null, ""}

\* inputs of the callers: a message is a plain object, null, or a value that
\* JSON.stringify cannot turn into a buffer (a circular object, undefined)
MessageIds == {Null, "", "m1"}
Priorities == {-5, 8, 99}
Bodies == {"object", "null", "unserializable"}

\* the arguments of a call to publishToQueue: each call departs from
\* (a plain object, priority 8, no messageId) in at most one argument
SingleInputs ==
  {in \in [message : Bodies, priority : Priorities, messageId : MessageIds] :
     Cardinality({f \in {"message", "priority", "messageId"} :
                    in[f] # [message |-> "object", priority |-> 8,
                             messageId |-> Null][f]}) <= 1}

\* the batches a caller may pass to publishBatchToQueue
Batches ==
  {<<>>, <<"object">>, <<"object", "object">>,
   <<"unserializable", "object">>, <<"object", "unserializable">>}

\* the arguments of a call to publishBatchToQueue: priority 8, or a batch of
\* one message with any priority
BatchInputs ==
  {in \in [messages : Batches, priority : Priorities] :
     in.priority # 8 => in.messages = <<"object">>}

\* channel.sendToQueue returns true, returns false (buffer full) or throws
SendResults == {"ok", "full", "throw"}

\* the n-th result of uuidv4()
uuidv4(n) == "uuid-" \o ToString(n)

Min(a, b) == IF a < b THEN a ELSE b
Max(a, b) == IF a > b THEN a ELSE b

\* the priority cut off at 10 only
ClampNoFloor(priority) == Min(priority, 10)

\* Math.min(Math.max(priority, 0), 10)
Clamp(priority) == Min(Max(priority, 0), 10)

\* every message gets a generated id, also when the caller supplied one
MsgIdAlwaysGenerated(messageId, n) == uuidv4(n)

\* messageId || uuidv4()
MsgId(messageId, n) == IF messageId \in Falsy THEN uuidv4(n) ELSE messageId

NoError == ""

PubIdle ==
  [pc |-> "idle", kind |-> "none", call |-> 0, priority |-> 0,
   messageId |-> Null, msgs |-> <<>>, i |-> 0, out |-> "none",
   err |-> NoError, endAt |-> 0]

PubInit ==
  /\ pub = [p \in PubProcs |-> PubIdle]
  /\ sent = <<>>
  /\ bufferFull = FALSE
  /\ drains = 0
  /\ nextUuid = 1
  /\ nextCall = 1

\* the text the catch block puts in front of the cause
ErrorPrefix(kind) ==
  IF kind = "batch" THEN "Failed to publish batch to queue: "
                    ELSE "Failed to publish message to queue: "

\* the call returns normally
PubReturned(r) ==
  [r EXCEPT !.pc = "done", !.out = "returned", !.endAt = drains]

\* the catch block logs the error and lets the call return normally
PubCatchSwallow(r, cause) ==
  [r EXCEPT !.pc = "done", !.out = "returned", !.endAt = drains]

\* the catch block: log, then throw a new Error wrapping the cause's message
PubCatch(r, cause) ==
  [r EXCEPT !.pc = "done", !.out = "threw",
            !.err = ErrorPrefix(r.kind) \o cause, !.endAt = drains]

\* the options object handed to channel.sendToQueue, with the call's inputs
SentMessage(r, id, full) ==
  [call |-> r.call, idx |-> r.i, body |-> r.msgs[r.i],
   priority |-> Clamp(r.priority), p |-> r.priority,
   messageId |-> id, given |-> r.messageId,
   full |-> full, at |-> drains]

\* publishToQueue / publishBatchToQueue is called, on the first task that is
\* not inside a call
PubStart(p, kind, msgs, priority, messageId) ==
  /\ pub[p].pc \in {"idle", "done"}
  /\ \A q \in PubProcs : q < p => pub[q].pc \notin {"idle", "done"}
  /\ nextCall <= MaxCalls
  /\ pub' = [pub EXCEPT ![p] =
               [pc |-> "getChannel", kind |-> kind, call |-> nextCall,
                priority |-> priority, messageId |-> messageId, msgs |-> msgs,
                i |-> 1, out |-> "none", err |-> NoError, endAt |-> 0]]
  /\ nextCall' = nextCall + 1
  /\ UNCHANGED <<connVars, whVars, consVars, sent, bufferFull, drains, nextUuid>>

CallPublishToQueue(p) ==
  \E in \in SingleInputs :
     PubStart(p, "single", <<in.message>>, in.priority, in.messageId)

CallPublishBatchToQueue(p) ==
  \E in \in BatchInputs :
     PubStart(p, "batch", in.messages, in.priority, Null)

\* connectionManager.getChannel('publisher') rejects
PubGetChannelFail(p) ==
  /\ pub[p].pc = "getChannel"
  /\ pub' = [pub EXCEPT ![p] = PubCatch(@, "getChannel")]
  /\ UNCHANGED <<connVars, whVars, consVars, sent, bufferFull, drains,
                 nextUuid, nextCall>>

\* connectionManager.getChannel('publisher') resolves; ensureQueue is awaited
PubGetChannelOk(p) ==
  /\ pub[p].pc = "getChannel"
  /\ pub' = [pub EXCEPT ![p].pc = "ensureQueue"]
  /\ UNCHANGED <<connVars, whVars, consVars, sent, bufferFull, drains,
                 nextUuid, nextCall>>

\* channel.assertQueue rejects
PubEnsureQueueFail(p) ==
  /\ pub[p].pc = "ensureQueue"
  /\ pub' = [pub EXCEPT ![p] = PubCatch(@, "assertQueue")]
  /\ UNCHANGED <<connVars, whVars, consVars, sent, bufferFull, drains,
                 nextUuid, nextCall>>

\* publishToQueue after its waits: the info log reads message.imageId, which
\* throws inside the try block when message is null
AfterPublished(r) ==
  IF r.msgs[1] = "null" THEN PubCatch(r, "log") ELSE PubReturned(r)

\* publishToQueue goes on to the log whatever sendToQueue returned
OnSentNoWait(r, full) == AfterPublished(r)

\* publishToQueue: if (!sent) await the channel's next 'drain' event
OnSent(r, full) ==
  IF full THEN [r EXCEPT !.pc = "drain"] ELSE AfterPublished(r)

\* publishToQueue from the msgId to the drain wait or the end of the call
SendSingle(p, r, result) ==
  LET id == MsgId(r.messageId, nextUuid)
      full == bufferFull \/ result = "full"
  IN /\ nextUuid' = IF r.messageId \in Falsy THEN nextUuid + 1 ELSE nextUuid
     /\ IF r.msgs[1] = "unserializable"
          THEN /\ pub' = [pub EXCEPT ![p] = PubCatch(r, "stringify")]
               /\ UNCHANGED <<sent, bufferFull>>
          ELSE IF result = "throw"
            THEN /\ pub' = [pub EXCEPT ![p] = PubCatch(r, "sendToQueue")]
                 /\ UNCHANGED <<sent, bufferFull>>
            ELSE /\ sent' = Append(sent, SentMessage(r, id, full))
                 /\ bufferFull' = full
                 /\ pub' = [pub EXCEPT ![p] = OnSent(r, full)]

\* publishBatchToQueue sends the next message whatever sendToQueue returned
OnBatchSentNoWait(r, full) == [r EXCEPT !.i = @ + 1]

\* publishBatchToQueue: if (!sent) await the channel's next 'drain' event
\* before the next iteration
OnBatchSent(r, full) ==
  IF full THEN [r EXCEPT !.i = @ + 1, !.pc = "drain"] ELSE [r EXCEPT !.i = @ + 1]

\* the for loop of publishBatchToQueue from message r.i up to the next drain
\* wait, a throw or the end of the call; results[i] is what sendToQueue does
\* with message i
RECURSIVE SendLoop(_, _, _, _, _)
SendLoop(r, results, log, uuid, full) ==
  IF r.i > Len(r.msgs)
    THEN [r |-> PubReturned(r), sent |-> log, uuid |-> uuid, full |-> full]
    ELSE IF r.msgs[r.i] = "unserializable"
      THEN [r |-> PubCatch(r, "stringify"), sent |-> log,
            uuid |-> uuid + 1, full |-> full]
      ELSE IF results[r.i] = "throw"
        THEN [r |-> PubCatch(r, "sendToQueue"), sent |-> log,
              uuid |-> uuid + 1, full |-> full]
        ELSE LET nowFull == full \/ results[r.i] = "full"
                 log2 == Append(log, SentMessage(r, uuidv4(uuid), nowFull))
                 next == OnBatchSent(r, nowFull)
             IN IF next.pc = "drain"
                  THEN [r |-> next, sent |-> log2, uuid |-> uuid + 1,
                        full |-> nowFull]
                  ELSE SendLoop(next, results, log2, uuid + 1, nowFull)

SendBatch(p, r, results) ==
  LET run == SendLoop(r, results, sent, nextUuid, bufferFull)
  IN /\ pub' = [pub EXCEPT ![p] = run.r]
     /\ sent' = run.sent
     /\ nextUuid' = run.uuid
     /\ bufferFull' = run.full

\* channel.assertQueue resolves and the call runs up to its next wait
PubEnsureQueueOk(p) ==
  /\ pub[p].pc = "ensureQueue"
  /\ IF pub[p].kind = "single"
       THEN \E result \in SendResults : SendSingle(p, pub[p], result)
       ELSE \E results \in [DOMAIN pub[p].msgs -> SendResults] :
               SendBatch(p, pub[p], results)
  /\ UNCHANGED <<connVars, whVars, consVars, drains, nextCall>>

\* the channel's buffer has emptied: 'drain' is emitted and every once-listener
\* resolves the promise its call is waiting on
ChannelDrain ==
  /\ bufferFull
  /\ bufferFull' = FALSE
  /\ drains' = drains + 1
  /\ pub' = [p \in PubProcs |->
               IF pub[p].pc = "drain" THEN [pub[p] EXCEPT !.pc = "drained"]
                                      ELSE pub[p]]
  /\ UNCHANGED <<connVars, whVars, consVars, sent, nextUuid, nextCall>>

\* the promise of the drain wait: only once('drain', resolve) is attached to
\* the channel, so the channel's 'close' and 'error' events leave it pending and
\* the call stays suspended on a channel that emits no further 'drain'
OnPublisherChannelClosed(r) ==
  IF r.pc = "drain" THEN [r EXCEPT !.pc = "suspended"] ELSE r

\* the publisher channel closes (closed, errored, or its connection closed)
\* while a call waits for its 'drain' event; the cache entry is evicted, so the
\* next call gets a new channel with an empty buffer
PublisherChannelClose ==
  /\ \E p \in PubProcs : pub[p].pc = "drain"
  /\ pub' = [p \in PubProcs |-> OnPublisherChannelClosed(pub[p])]
  /\ bufferFull' = FALSE
  /\ UNCHANGED <<connVars, whVars, consVars, sent, drains, nextUuid, nextCall>>

\* the call resumes after its drain wait
PubDrainResume(p) ==
  /\ pub[p].pc = "drained"
  /\ IF pub[p].kind = "single"
       THEN /\ pub' = [pub EXCEPT ![p] = AfterPublished(@)]
            /\ UNCHANGED <<sent, nextUuid, bufferFull>>
       ELSE \E results \in [DOMAIN pub[p].msgs -> SendResults] :
               SendBatch(p, pub[p], results)
  /\ UNCHANGED <<connVars, whVars, consVars, drains, nextCall>>

PubNext ==
  \/ \E p \in PubProcs : CallPublishToQueue(p)
  \/ \E p \in PubProcs : CallPublishBatchToQueue(p)
  \/ \E p \in PubProcs : PubGetChannelFail(p)
  \/ \E p \in PubProcs : PubGetChannelOk(p)
  \/ \E p \in PubProcs : PubEnsureQueueFail(p)
  \/ \E p \in PubProcs : PubEnsureQueueOk(p)
  \/ ChannelDrain
  \/ PublisherChannelClose
  \/ \E p \in PubProcs : PubDrainResume(p)

(***************************************************************************)
(* Properties of the connection manager (ConnSpec)                         *)
(***************************************************************************)
\* tasks whose connect() is awaiting amqp.connect
InFlight == {p \in Procs : procs[p].pc = "c_await"}

\* tasks polling in the wait loop of connect()
Waiting == {p \in Procs : procs[p].pc = "c_wait"}

C2_ReconnectRepeats ==
  ( /\ connection = 0
    /\ \E c \in handled : c \notin liveConns
    /\ \A p \in Procs \ {TimerProc} : procs[p].pc \in {"idle", "done"} )
  => (timers # <<>> \/ procs[TimerProc].pc # "idle")

\* C3: every cached channel was opened on the connection the manager holds now.
C3_CachedChannelsAreCurrent ==
  \A n \in Names :
    channels[n] # 0 => connection # 0 /\ chans[channels[n]].conn = connection

\* C4: handling the close event of a connection leaves no connection handle,
\* an empty channel cache and exactly one new reconnect timer set to 10 s; a
\* reconnect timer is consumed only once its delay has fully elapsed.
C4_CloseHandler ==
  [][ /\ \A c \in (liveConns \ liveConns') \cap handled :
            /\ connection' = 0
            /\ channels' = NoChannels
            /\ timers' = Append(timers, 10 * 1000)
      /\ Len(timers') < Len(timers) => Head(timers) = 0 /\ timers' = Tail(timers)
    ]_vars

\* the close handler has run on a connection whose channel was cached: the
\* cache is empty, the handle is gone and the timer has its full delay left
C4_Witness ==
  /\ connection = 0
  /\ channels = NoChannels
  /\ timers = <<10 * 1000>>
  /\ \E c \in DOMAIN chans : ~chans[c].open /\ chans[c].on # "" /\ chans[c].prefetch = 1

(***************************************************************************)
(* Properties of the webhook entry point (WebhookSpec) and of the event    *)
(* log repository (LedgerSpec)                                             *)
(***************************************************************************)
SameEvent(d1, d2) ==
  /\ d1 # d2
  /\ deliveries[d1].eventId # ""
  /\ deliveries[d1].eventId = deliveries[d2].eventId

\* C5: the business handler of an eventId is executed at most once, whatever
\* the interleaving of the deliveries of that eventId.
C5_HandlerAtMostOnce == \A e \in EventIds : handlerRuns[e] <= 1

\* the same event was delivered twice, handled once and answered as a duplicate
C5_Witness ==
  \E d1, d2 \in Deliveries :
    /\ SameEvent(d1, d2)
    /\ deliveries[d1].ran
    /\ deliveries[d2].pc = "done"
    /\ deliveries[d2].dup
    /\ handlerRuns[deliveries[d1].eventId] = 1

\* C6: two calls in sequence with the same eventId, the handler succeeding,
\* leave one record with status processed and one handler execution, and the
\* second call answers 200 with the duplicate indicator without the handler.
C6_SequentialDuplicate ==
  \A d1, d2 \in Deliveries :
    ( /\ SameEvent(d1, d2)
      /\ d1 \in deliveries[d2].after
      /\ deliveries[d1].ran /\ deliveries[d1].http = 200
      /\ deliveries[d2].pc = "done" /\ deliveries[d2].err # "signature" )
    => /\ Cardinality(FindByEventId(deliveries[d1].eventId)) = 1
       /\ \A r \in FindByEventId(deliveries[d1].eventId) : r.status = "processed"
       /\ handlerRuns[deliveries[d1].eventId] = 1
       /\ deliveries[d2].http = 200 /\ deliveries[d2].dup /\ ~deliveries[d2].ran

\* C7: the ledger holds at most one record per eventId.
C7_OneRecordPerEvent == \A e \in EventIds : Cardinality(FindByEventId(e)) <= 1

\* two deliveries of one event both passed the duplicate lookup; the create of
\* the second was rejected and one record exists
C7_Witness ==
  \E d1, d2 \in Deliveries :
    /\ SameEvent(d1, d2)
    /\ deliveries[d1].pc \in {"route", "done"} /\ deliveries[d1].err = "none"
    /\ ~deliveries[d1].dup
    /\ deliveries[d2].err = "unique"
    /\ Cardinality(FindByEventId(deliveries[d1].eventId)) = 1

\* C8: a record is created with status processing, its status only changes
\* from processing to processed or failed, and no record is ever removed.
C8_RecordLifecycle ==
  [][ /\ \A r \in ledger' :
            (\A o \in ledger : o.row # r.row) => r.status = "processing"
      /\ \A o \in ledger :
            \E r \in ledger' :
              /\ r.row = o.row /\ r.event_id = o.event_id
              /\ r.status # o.status =>
                   o.status = "processing" /\ r.status \in {"processed", "failed"}
    ]_vars

\* C9: once the entry point has returned for an event it handled, the record
\* is processed if the handler completed and failed if the handler raised.
C9_StatusSettledOnReturn ==
  \A d \in Deliveries :
    (deliveries[d].pc = "done" /\ deliveries[d].ran)
    => /\ FindByEventId(deliveries[d].eventId) # {}
       /\ \A r \in FindByEventId(deliveries[d].eventId) :
            r.status = IF deliveries[d].err = "none" THEN "processed" ELSE "failed"

(***************************************************************************)
(* Properties of the retrying consumer (ConsumerSpec)                      *)
(***************************************************************************)
\* the message is on one of the queues or held unacknowledged by the consumer
Present(id) ==
  \/ \E q \in QueueNames : \E i \in DOMAIN queues[q] : queues[q][i].id = id
  \/ consumer.msg.id = id

\* C10: a failed message below the retry limit is put on the retry queue with
\* retryCount+1 and the original-queue header while it is still unacknowledged,
\* it is acknowledged only in a later step, and no published message that has
\* not been handled is ever absent from every queue.
C10_RepublishThenAck ==
  /\ [](\A id \in 1..(nextMsg - 1) : id \in handledOk \/ Present(id))
  /\ [][ (consumer.pc = "handling" /\ consumer'.pc # "handling"
            /\ handledOk' = handledOk /\ consumer.msg.retryCount < maxRetries)
         => /\ consumer'.pc = "routed"
            /\ consumer'.msg = consumer.msg
            /\ queues' = [queues EXCEPT ![Triple.retry] =
                            Append(@, [consumer.msg EXCEPT
                                         !.retryCount = @ + 1,
                                         !.origQueue = Triple.main])]
       ]_vars

\* a failed message sits on the retry queue with its count raised while the
\* consumer has not yet acknowledged the delivery
C10_Witness ==
  /\ consumer.pc = "routed"
  /\ consumer.msg.retryCount < maxRetries
  /\ \E i \in DOMAIN queues[Triple.retry] :
        /\ queues[Triple.retry][i].id = consumer.msg.id
        /\ queues[Triple.retry][i].retryCount = consumer.msg.retryCount + 1
        /\ queues[Triple.retry][i].origQueue = Triple.main

\* the message is ready for delivery on queue q
OnQueue(q, id) ==
  q \in DOMAIN queues /\ \E i \in DOMAIN queues[q] : queues[q][i].id = id

\* the message is ready for delivery on queue q with the given retryCount
OnQueueWith(q, id, count) ==
  q \in DOMAIN queues
    /\ \E i \in DOMAIN queues[q] :
          queues[q][i].id = id /\ queues[q][i].retryCount = count

\* the consumer holds the message unacknowledged
Held(id) == consumer.msg.id = id

\* the retryCount values carried by the copies of a message
RetryCounts(id) ==
  UNION {{queues[q][i].retryCount :
            i \in {j \in DOMAIN queues[q] : queues[q][j].id = id}} : q \in QueueNames}
    \cup (IF Held(id) THEN {consumer.msg.retryCount} ELSE {})

\* C11: when the handler fails on a message whose retryCount is at or above
\* maxRetries, the message is appended unchanged to the dead-letter queue while
\* still unacknowledged, the consumer's next step acknowledges it, and a message
\* on the dead-letter queue stays there and is never again on the main queue,
\* on the retry queue or delivered to the consumer.
C11_DeadLetterIsTerminal ==
  /\ [][ (consumer.pc = "handling" /\ consumer'.pc # "handling"
            /\ handledOk' = handledOk /\ consumer.msg.retryCount >= maxRetries)
         => /\ consumer'.pc = "routed"
            /\ consumer'.msg = consumer.msg
            /\ queues' = [queues EXCEPT ![Triple.dlq] = Append(@, consumer.msg)]
       ]_vars
  /\ [][ (consumer.pc = "routed" /\ consumer' # consumer)
         => (consumer' = [pc |-> "idle", msg |-> NoMessage] /\ queues' = queues)
       ]_vars
  /\ [][ \A id \in 1..MaxMsgs :
           OnQueue(Triple.dlq, id)
           => /\ OnQueue(Triple.dlq, id)'
              /\ ~OnQueue(Triple.main, id)'
              /\ ~OnQueue(Triple.retry, id)'
              /\ (Held(id)' => (Held(id) /\ consumer'.pc = "routed"))
       ]_vars

\* a message that failed at the retry limit is on the dead-letter queue with
\* the payload it was delivered with, and has been acknowledged
C11_Witness ==
  /\ consumer.pc = "idle"
  /\ \E i \in DOMAIN queues[Triple.dlq] :
        /\ queues[Triple.dlq][i].retryCount >= maxRetries
        /\ queues[Triple.dlq][i].payload \in Payloads
        /\ failures[queues[Triple.dlq][i].id] > maxRetries

\* C12: every message on the main queue or the retry queue has a retryCount
\* between 0 and 5; a message enters with retryCount 0, and a retryCount not
\* seen before on a message is one more than that of the failed delivery the
\* consumer holds, appearing together with a new entry of the retry queue.
C12_RetryCountBounded ==
  /\ [](\A q \in {Triple.main, Triple.retry} : \A i \in DOMAIN queues[q] :
          queues[q][i].retryCount \in 0..5)
  /\ [][ \A id \in 1..MaxMsgs : \A c \in RetryCounts(id)' :
           \/ c \in RetryCounts(id)
           \/ RetryCounts(id) = {} /\ c = 0 /\ nextMsg' = nextMsg + 1
           \/ /\ Held(id)
              /\ c = consumer.msg.retryCount + 1
              /\ Len(queues'[Triple.retry]) = Len(queues[Triple.retry]) + 1
       ]_vars

\* a message waits on the retry queue with the largest retryCount allowed
C12_Witness ==
  \E i \in DOMAIN queues[Triple.retry] : queues[Triple.retry][i].retryCount = 5

\* C13: a message is put on the retry queue at most 5 times; a message on the
\* dead-letter queue was put there after exactly 5 retries, carries
\* retryCount = maxRetries, is on neither other queue, and no later step
\* delivers it to the consumer or appends it to the main queue.
C13_RetriedExactlyMaxRetries ==
  /\ [](\A id \in 1..MaxMsgs :
          /\ retries[id] <= 5
          /\ OnQueue(Triple.dlq, id)
             => /\ retries[id] = 5
                /\ \A i \in DOMAIN queues[Triple.dlq] :
                      queues[Triple.dlq][i].id = id
                      => queues[Triple.dlq][i].retryCount = maxRetries
                /\ ~OnQueue(Triple.main, id)
                /\ ~OnQueue(Triple.retry, id))
  /\ [][ \A id \in 1..MaxMsgs :
           OnQueue(Triple.dlq, id)
           => /\ (consumer'.pc = "handling" => consumer'.msg.id # id)
              /\ (Len(queues'[Triple.main]) > Len(queues[Triple.main])
                  => queues'[Triple.main][Len(queues'[Triple.main])].id # id)
       ]_vars

\* a message whose handler failed on every delivery is dead-lettered after its
\* fifth retry
C13_Witness ==
  \E id \in 1..MaxMsgs :
     /\ OnQueue(Triple.dlq, id)
     /\ retries[id] = 5
     /\ id \notin handledOk

C15_CrashLosesNothing ==
  /\ [](\A id \in 1..(nextMsg - 1) :
          id \notin handledOk
          => \/ OnQueue(Triple.main, id)
             \/ OnQueue(Triple.retry, id)
             \/ OnQueue(Triple.dlq, id)
             \/ Held(id))
  /\ [][ crashes' = crashes + 1
         => /\ consumer.msg # NoMessage
            /\ queues'[Triple.main] # <<>>
            /\ Head(queues'[Triple.main]) = consumer.msg
       ]_vars

\* the only message published was delivered, the consumer crashed before its
\* handler finished, and the message is back on the main queue
C15_Witness ==
  /\ crashes = 1
  /\ nextMsg = 2
  /\ consumer.pc = "idle"
  /\ failures[1] = 0
  /\ 1 \notin handledOk
  /\ OnQueue(Triple.main, 1)

(***************************************************************************)
(* Properties of the publisher (PubSpec)                                   *)
(***************************************************************************)
\* the messages a call has handed to the channel, oldest first
CallRecs(call) == SelectSeq(sent, LAMBDA m : m.call = call)

\* what the catch block can wrap
Causes == {"getChannel", "assertQueue", "stringify", "sendToQueue", "log"}

\* C16: a publishToQueue call whose sendToQueue reported a full buffer waits
\* with no drain event emitted since the send, ends only after a later drain
\* event of the channel, and has handed its message to the channel exactly once.
C16_DrainBeforeReturn ==
  \A p \in PubProcs :
     LET r == pub[p]
         recs == CallRecs(r.call)
     IN r.kind = "single"
        => /\ Len(recs) <= 1
           /\ r.pc \in {"drain", "drained"} => (Len(recs) = 1 /\ recs[1].full)
           /\ r.pc = "drain" => drains = recs[1].at
           /\ r.pc = "drained" => drains > recs[1].at
           /\ (r.pc = "done" /\ Len(recs) = 1 /\ recs[1].full)
              => r.endAt > recs[1].at

\* a call returned after its send reported a full buffer and a drain followed
C16_Witness ==
  \E p \in PubProcs :
     /\ pub[p].kind = "single"
     /\ pub[p].out = "returned"
     /\ Len(CallRecs(pub[p].call)) = 1
     /\ CallRecs(pub[p].call)[1].full
     /\ pub[p].endAt > CallRecs(pub[p].call)[1].at

\* C17: the messages a publishBatchToQueue call has sent are the first
\* messages of its input, each once and in input order, all of them when the
\* call returned; their messageIds are generated and pairwise distinct; and a
\* message that follows one whose send reported a full buffer was sent after a
\* later drain event.
C17_BatchInOrder ==
  \A p \in PubProcs :
     LET r == pub[p]
         recs == CallRecs(r.call)
     IN r.kind = "batch"
        => /\ Len(recs) <= Len(r.msgs)
           /\ r.out = "returned" => Len(recs) = Len(r.msgs)
           /\ \A j \in DOMAIN recs :
                /\ recs[j].idx = j
                /\ recs[j].body = r.msgs[j]
                /\ \E n \in 1..(nextUuid - 1) : recs[j].messageId = uuidv4(n)
                /\ \A k \in DOMAIN recs : k # j => recs[k].messageId # recs[j].messageId
                /\ (recs[j].full /\ j + 1 \in DOMAIN recs) => recs[j + 1].at > recs[j].at

\* a batch of two returned; its first send reported a full buffer and its
\* second message went out after the drain
C17_Witness ==
  \E p \in PubProcs :
     /\ pub[p].kind = "batch"
     /\ pub[p].out = "returned"
     /\ Len(CallRecs(pub[p].call)) = 2
     /\ CallRecs(pub[p].call)[1].full
     /\ CallRecs(pub[p].call)[2].at > CallRecs(pub[p].call)[1].at

\* C18: a publishToQueue call never hands more than one message to the
\* channel; when it has ended it either returned normally with exactly one
\* message sent, or threw "Failed to publish message to queue: <cause>".
C18_ReturnsOrThrows ==
  \A p \in PubProcs :
     LET r == pub[p]
         n == Len(CallRecs(r.call))
     IN r.kind = "single"
        => /\ n <= 1
           /\ r.pc = "done" <=> r.out \in {"returned", "threw"}
           /\ r.out = "returned" => (n = 1 /\ r.err = NoError)
           /\ r.out = "threw"
              => \E cause \in Causes :
                    r.err = "Failed to publish message to queue: " \o cause

\* the second call returned after its one send; the first call threw and
\* sent nothing
C18_Witness ==
  \E p \in PubProcs :
     /\ pub[p].kind = "single"
     /\ pub[p].call = 2
     /\ pub[p].out = "returned"
     /\ Len(sent) = 1
     /\ sent[1].call = 2

\* max(0, min(p, 10))
ClaimedPriority(p) == IF p < 0 THEN 0 ELSE IF p > 10 THEN 10 ELSE p

\* C19: every message handed to the channel by publishToQueue or
\* publishBatchToQueue carries the priority max(0, min(p, 10)) of its call's
\* priority p, the clamp computes that value for every p in -12..22 and for
\* 99 (0 for -5, 10 for 99), and a call that threw did so for a cause other
\* than its priority.
C19_PriorityClamped ==
  /\ \A i \in DOMAIN sent : sent[i].priority = ClaimedPriority(sent[i].p)
  /\ \A p \in (-12..22) \cup {99} : Clamp(p) = ClaimedPriority(p)
  /\ Clamp(-5) = 0
  /\ Clamp(99) = 10
  /\ \A p \in PubProcs :
        pub[p].out = "threw"
        => \E cause \in Causes : pub[p].err = ErrorPrefix(pub[p].kind) \o cause

\* messages published with priority -5 and with priority 99 went out with 0
\* and with 10
C19_Witness ==
  /\ \E i \in DOMAIN sent : sent[i].p = -5 /\ sent[i].priority = 0
  /\ \E i \in DOMAIN sent : sent[i].p = 99 /\ sent[i].priority = 10

\* C20 as stated: a message sent for a call that supplied a messageId (any
\* value but null) carries that messageId, and one sent for a call that
\* omitted it carries an id that no other sent message carries.
C20_SuppliedIdKept ==
  \A i \in DOMAIN sent :
     /\ sent[i].given # Null => sent[i].messageId = sent[i].given
     /\ sent[i].given = Null
        => \A j \in DOMAIN sent : j # i => sent[j].messageId # sent[i].messageId

\* C20: a message sent for a call that supplied a non-empty messageId carries
\* that messageId; one sent for a call whose messageId was null or the empty
\* string carries a generated id that no other sent message carries.
C20_MessageId ==
  \A i \in DOMAIN sent :
     /\ sent[i].given \notin {Null, ""} => sent[i].messageId = sent[i].given
     /\ sent[i].given \in {Null, ""}
        => /\ \E n \in 1..(nextUuid - 1) : sent[i].messageId = uuidv4(n)
           /\ \A j \in DOMAIN sent : j # i => sent[j].messageId # sent[i].messageId

\* a message published with its messageId and one published with an empty
\* messageId, which went out with a generated id
C20_Witness ==
  /\ \E i \in DOMAIN sent : sent[i].given = "m1" /\ sent[i].messageId = "m1"
  /\ \E i \in DOMAIN sent : sent[i].given = "" /\ sent[i].messageId = uuidv4(1)

(***************************************************************************)
(* Properties of the channel cache and of the shutdown path (ManagerSpec)  *)
(***************************************************************************)
\* the step starts a call of op on task p (a call is the only step that counts
\* up nextOp, and it changes the record of the calling task alone)
Starts(p, op) ==
  /\ nextOp' = nextOp + 1
  /\ procs'[p] # procs[p]
  /\ procs'[p].op = op

\* the step ends the call of op that task p was in
Ends(p, op) ==
  /\ procs[p].op = op
  /\ procs[p].pc \notin {"idle", "done"}
  /\ procs'[p].pc = "done"

\* the step is the whole of a call of op on task p, or its end
Finishes(p, op) ==
  \/ Starts(p, op) /\ procs'[p].pc = "done"
  \/ Ends(p, op)

\* C21: getChannel(name) answers from the cache when the name is cached: the
\* call returns the cached channel in the same step, and no channel and no
\* connection is opened; every getChannel(name) that returns hands out the
\* channel cached under name at that moment, so two calls with no eviction in
\* between return the same channel.
C21_CachedChannelReturned ==
  [][\A p \in Callers :
       /\ Starts(p, "getChannel") /\ channels[procs'[p].name] # 0
            => /\ procs'[p].pc = "done"
               /\ procs'[p].out = "returned"
               /\ procs'[p].res = channels[procs'[p].name]
               /\ UNCHANGED <<channels, chans, liveConns, nextConn, connection,
                              isConnecting>>
       /\ Finishes(p, "getChannel") /\ procs'[p].out = "returned"
            => /\ procs'[p].res # 0
               /\ procs'[p].res = channels'[procs'[p].name]
    ]_vars

\* two channels are cached under the two names and the caller's last call has
\* returned the older one: that call was answered from the cache
C21_Witness ==
  /\ Len(chans) = 2
  /\ \E p \in Callers :
       /\ procs[p].pc = "done"
       /\ procs[p].op = "getChannel"
       /\ procs[p].out = "returned"
       /\ procs[p].res = 1
       /\ channels[procs[p].name] = 1
       /\ \E n \in Names \ {procs[p].name} : channels[n] = 2

\* C22: an error or close event on the channel cached under a name removes the
\* name from the cache; a getChannel(name) that starts with the name uncached
\* goes on to connect or to create a channel, and the channel it returns was
\* opened for this call, registered under the name and never cached before.
C22_EvictedThenReopened ==
  [][ /\ \A n \in Names :
           ( /\ channels[n] # 0
             /\ chans[channels[n]].open
             /\ ~chans'[channels[n]].open ) => channels'[n] = 0
      /\ \A p \in Callers :
           /\ Starts(p, "getChannel") /\ channels[procs'[p].name] = 0
                => procs'[p].pc \in {"c_await", "c_wait", "gc_create"}
           /\ Ends(p, "getChannel") /\ procs'[p].out = "returned"
                => /\ procs'[p].res = procs[p].val
                   /\ chans[procs[p].val].on = procs[p].name
                   /\ \A n \in Names : channels[n] # procs[p].val
    ]_vars

\* the channel cached under a name was closed while its connection stayed up,
\* and a later getChannel(name) has returned a second channel, now cached
C22_Witness ==
  \E n \in Names, p \in Callers :
    /\ Len(chans) = 2
    /\ chans[1].on = n /\ ~chans[1].open /\ chans[1].prefetch = 1
    /\ chans[2].on = n /\ chans[2].open /\ chans[2].conn = chans[1].conn
    /\ channels[n] = 2
    /\ procs[p].pc = "done" /\ procs[p].op = "getChannel" /\ procs[p].name = n
    /\ procs[p].out = "returned" /\ procs[p].res = 2

\* C23: closeChannel(name) never throws, and when it returns no channel is
\* cached under name, also when channel.close() failed.
C23_CloseChannelEvicts ==
  [][ Finishes(ShutdownProc, "closeChannel")
        => /\ procs'[ShutdownProc].out = "returned"
           /\ channels'[procs'[ShutdownProc].name] = 0
    ]_vars

\* C24: close() visits every cached channel before it goes on to the connection,
\* a channel whose close fails does not end the loop, and when close() returns
\* normally the cache is empty and isConnected() is false.
C24_CloseLeavesNothing ==
  [][ /\ ( /\ Starts(ShutdownProc, "close") \/ procs[ShutdownProc].pc = "cl_chan"
           /\ procs'[ShutdownProc].pc \in {"cl_conn", "done"} )
           => \A n \in Names : channels[n] # 0 => n \in procs'[ShutdownProc].seen
      /\ procs[ShutdownProc].pc = "cl_chan" /\ procs[ShutdownProc].st = "err"
           => /\ procs'[ShutdownProc].out # "threw"
              /\ procs'[ShutdownProc].pc \in {"cl_chan", "cl_conn", "done"}
      /\ Finishes(ShutdownProc, "close") /\ procs'[ShutdownProc].out = "returned"
           => channels' = NoChannels /\ ~isConnected'
    ]_vars

\* close() has returned normally after it visited the channels cached under
\* both names; the channels and the connection are closed, nothing is cached
C24_Witness ==
  /\ procs[ShutdownProc].pc = "done"
  /\ procs[ShutdownProc].op = "close"
  /\ procs[ShutdownProc].out = "returned"
  /\ procs[ShutdownProc].seen = Names
  /\ Len(chans) = 2
  /\ \A c \in DOMAIN chans : ~chans[c].open /\ chans[c].prefetch = 1
  /\ liveConns = {}
  /\ channels = NoChannels
  /\ ~isConnected

\* C25: disconnectPublisher touches the "publisher" channel only: the steps of
\* the call (its start, the broker closing the channel for it, its continuation)
\* leave the connection handle, the connections, every other cache entry and
\* every other channel as they are; a successful close leaves "publisher"
\* uncached; the call never throws.
C25_DisconnectPublisherOnly ==
  [][ LET r == procs[ShutdownProc]
          own == \/ Starts(ShutdownProc, "disconnectPublisher")
                 \/ /\ r.op = "disconnectPublisher"
                    /\ r.pc = "cc_close"
                    /\ \/ r.st = "pending" /\ procs'[ShutdownProc].st = "ok"
                       \/ r.st # "pending" /\ procs'[ShutdownProc].pc = "done"
      IN /\ own => /\ connection' = connection
                   /\ liveConns' = liveConns
                   /\ procs'[ShutdownProc].name = "publisher"
                   /\ \A n \in Names \ {"publisher"} : channels'[n] = channels[n]
                   /\ \A c \in DOMAIN chans :
                        chans'[c] # chans[c] => c = r.val /\ chans[c].on = "publisher"
         /\ ( /\ r.op = "disconnectPublisher" /\ r.pc = "cc_close" /\ r.st = "ok"
              /\ procs'[ShutdownProc].pc = "done" )
              => channels'["publisher"] = 0
         /\ Finishes(ShutdownProc, "disconnectPublisher")
              => procs'[ShutdownProc].out = "returned"
    ]_vars

\* disconnectPublisher has closed the publisher channel while a consumer
\* channel is cached: the consumer channel and the connection are as before
C25_Witness ==
  /\ procs[ShutdownProc].op = "disconnectPublisher"
  /\ procs[ShutdownProc].pc = "cc_close"
  /\ procs[ShutdownProc].st = "ok"
  /\ ~chans[procs[ShutdownProc].val].open
  /\ channels["publisher"] = 0
  /\ channels["consumer"] # 0
  /\ chans[channels["consumer"]].open
  /\ isConnected
  /\ connection \in liveConns

\* C26: a finished webhook call answered 400 exactly when the verification of
\* the signature failed, 200 exactly when no step threw (the event was
\* processed or was a duplicate), and 500 for an error of any other step,
\* the business handler included.
C26_StatusByOrigin ==
  \A d \in Deliveries :
    deliveries[d].pc = "done"
      => /\ deliveries[d].http = 400 <=> deliveries[d].err = "signature"
         /\ deliveries[d].http = 200 <=> deliveries[d].err = "none"
         /\ deliveries[d].err \notin {"none", "signature"} => deliveries[d].http = 500

\* C27: an 'error' event of a connection changes neither the connection handle
\* nor the channel cache, closes nothing and sets no timer: isConnected() and
\* the cached channels are after the event what they were before it.
C27_ErrorEventChangesNothing ==
  [][ errored' # errored /\ errored \subseteq errored'
        => /\ connection' = connection
           /\ isConnected' = isConnected
           /\ channels' = channels
           /\ chans' = chans
           /\ liveConns' = liveConns
           /\ timers' = timers
           /\ procs' = procs
    ]_vars

\* the connection the manager holds has emitted 'error' and is still the
\* handle, with an open channel still cached
C27_Witness ==
  /\ isConnected
  /\ connection \in errored
  /\ connection \in liveConns
  /\ \E n \in Names : channels[n] # 0 /\ chans[channels[n]].open

\* C28: every cached channel, and every channel a getChannel call has returned,
\* has had its prefetch count set to 1; the broker therefore delivers to a
\* consumer on such a channel one unacknowledged message at a time.
C28_PrefetchOneBeforeCached ==
  /\ \A n \in Names : channels[n] # 0 => chans[channels[n]].prefetch = 1
  /\ \A p \in Callers :
       ( /\ procs[p].pc = "done"
         /\ procs[p].op = "getChannel"
         /\ procs[p].out = "returned" ) => chans[procs[p].res].prefetch = 1

\* a getChannel call has returned an open channel with prefetch count 1, and
\* the channel is cached under the name
C28_Witness ==
  \E p \in Callers :
    /\ procs[p].pc = "done" /\ procs[p].op = "getChannel" /\ procs[p].out = "returned"
    /\ channels[procs[p].name] = procs[p].res
    /\ chans[procs[p].res].open
    /\ chans[procs[p].res].prefetch = 1

(***************************************************************************)
(* Properties of the consumer under fair scheduling (ConsumerFairSpec)     *)
(***************************************************************************)

\* the message has reached a terminal outcome
Terminal(id) == id \in handledOk \/ OnQueue(Triple.dlq, id)

\* C29: when every handler invocation terminates and the consumer keeps
\* running, every message on the main queue eventually reaches a terminal
\* outcome, acknowledged after a handler success or parked on the dead-letter
\* queue, never both, and keeps it; a message waiting on the retry queue is
\* eventually back on the main queue, and it leaves the retry queue only when
\* the 60000 ms that started at its arrival have elapsed.
C29_EveryMessageTerminates ==
  /\ \A id \in 1..MaxMsgs : OnQueue(Triple.main, id) ~> Terminal(id)
  /\ \A id \in 1..MaxMsgs : OnQueue(Triple.retry, id) ~> OnQueue(Triple.main, id)
  /\ [](\A id \in 1..MaxMsgs : ~(id \in handledOk /\ OnQueue(Triple.dlq, id)))
  /\ [][ \A id \in 1..MaxMsgs :
           /\ id \in handledOk => id \in handledOk'
           /\ OnQueue(Triple.dlq, id) => OnQueue(Triple.dlq, id)'
           /\ Terminal(id) => ~OnQueue(Triple.main, id)' /\ ~OnQueue(Triple.retry, id)'
       ]_vars
  /\ [](Len(retryWait) = Len(queues[Triple.retry]))
  /\ [][ Len(queues'[Triple.retry]) > Len(queues[Triple.retry])
         => retryWait' = Append(retryWait, 60000)
       ]_vars
  /\ [][ Len(queues'[Triple.retry]) < Len(queues[Triple.retry])
         => /\ Head(retryWait) = 0
            /\ retryWait' = Tail(retryWait)
            /\ queues'[Triple.main] =
                 Append(queues[Triple.main], Head(queues[Triple.retry]))
       ]_vars
  /\ [][ \A i \in DOMAIN retryWait :
           (i \in DOMAIN retryWait' /\ Len(retryWait') >= Len(retryWait))
           => retryWait'[i] <= retryWait[i]
       ]_vars

\* one message was acknowledged after it had waited on the retry queue and
\* been redelivered, and another one is parked on the dead-letter queue
C29_Witness ==
  /\ consumer.pc = "idle"
  /\ \E id \in 1..MaxMsgs : id \in handledOk /\ retries[id] >= 1
  /\ \E id \in 1..MaxMsgs : OnQueue(Triple.dlq, id) /\ retries[id] = maxRetries

\* C30: a handler failure does not stop the consumer, also not the failure
\* that dead-letters the message: the failure step leaves the consumer at its
\* acknowledgement with the message routed to the retry queue or to the
\* dead-letter queue, and from there the consumer receives and handles the
\* message that is next on the main queue.
C30_ConsumerSurvivesFailure ==
  /\ [][ (consumer.pc = "handling" /\ consumer' # consumer /\ handledOk' = handledOk)
         => /\ consumer'.pc = "routed"
            /\ \/ Len(queues'[Triple.retry]) = Len(queues[Triple.retry]) + 1
               \/ Len(queues'[Triple.dlq]) = Len(queues[Triple.dlq]) + 1
       ]_vars
  /\ \A id \in 1..MaxMsgs :
       (/\ consumer.pc = "routed"
        /\ queues[Triple.main] # <<>>
        /\ Head(queues[Triple.main]).id = id)
       ~> (consumer.pc = "handling" /\ Held(id))
  /\ \A id \in 1..MaxMsgs :
       (consumer.pc = "handling" /\ Held(id))
       ~> (consumer.pc = "idle" /\ (id \in handledOk \/ failures[id] > 0))

\* the consumer handles a message after the failure that dead-lettered
\* another one
C30_Witness ==
  \E a, b \in 1..MaxMsgs :
    /\ a # b
    /\ OnQueue(Triple.dlq, a)
    /\ failures[a] = maxRetries + 1
    /\ consumer.pc = "handling"
    /\ Held(b)

(***************************************************************************)
(* Further properties of the webhook entry point (WebhookSpec)             *)
(***************************************************************************)
\* C31: the record of an event is created before its business handler is
\* invoked: the handler of an eventId starts only in a state where the ledger
\* holds a record of that eventId, the call that starts it is one whose own
\* create succeeded, and a call whose create failed never invokes the handler.
C31_RecordBeforeHandler ==
  /\ [][ \A e \in EventIds :
           handlerRuns'[e] > handlerRuns[e] => FindByEventId(e) # {}
       ]_vars
  /\ [][ \A d \in Deliveries :
           (deliveries'[d].ran /\ ~deliveries[d].ran)
           => /\ deliveries[d].pc = "route"
              /\ deliveries[d].err = "none"
              /\ FindByEventId(deliveries[d].eventId) # {}
       ]_vars
  /\ [][ \A d \in Deliveries :
           (deliveries'[d].err = "unique" /\ deliveries[d].err # "unique")
           => /\ handlerRuns' = handlerRuns
              /\ deliveries'[d].pc = "done"
              /\ ~deliveries'[d].ran
       ]_vars
  /\ [](\A d \in Deliveries : deliveries[d].err = "unique" => ~deliveries[d].ran)

\* one call created the record and ran the handler; another call for the same
\* event failed to create the record and returned without the handler
C31_Witness ==
  \E d1, d2 \in Deliveries :
    /\ SameEvent(d1, d2)
    /\ deliveries[d1].ran
    /\ deliveries[d2].pc = "done"
    /\ deliveries[d2].err = "unique"
    /\ ~deliveries[d2].ran
    /\ handlerRuns[deliveries[d1].eventId] = 1

\* C32: a failure of the notification task a business handler started never
\* changes the outcome of the webhook call: the end of the task changes nothing
\* but the task's own state, a call whose task failed has a handler that
\* completed without error, and its response, once sent, is 200.
C32_NotificationFailureDropped ==
  /\ [][ \A d \in Deliveries :
           (deliveries[d].notify = "running" /\ deliveries'[d].notify # "running")
           => /\ deliveries'[d].notify \in {"sent", "dropped"}
              /\ deliveries'[d] = [deliveries[d] EXCEPT !.notify = deliveries'[d].notify]
              /\ ledger' = ledger
              /\ handlerRuns' = handlerRuns
       ]_vars
  /\ [][ \A d \in Deliveries :
           (deliveries[d].pc = "respond" /\ deliveries'[d].pc # "respond")
           => (deliveries'[d].pc = "done" /\ deliveries'[d].http = 200)
       ]_vars
  /\ [](\A d \in Deliveries :
          deliveries[d].notify # "none"
          => /\ deliveries[d].ran
             /\ deliveries[d].err = "none"
             /\ deliveries[d].pc \in {"respond", "done"}
             /\ deliveries[d].pc = "done" => deliveries[d].http = 200)

\* the notification task of one call failed before its response was sent, and
\* a call whose notification task failed has answered 200
C32_Witness ==
  \E d1, d2 \in Deliveries :
    /\ deliveries[d1].pc = "respond"
    /\ deliveries[d1].notify = "dropped"
    /\ deliveries[d2].pc = "done"
    /\ deliveries[d2].notify = "dropped"
    /\ deliveries[d2].http = 200

(***************************************************************************)
(* Further properties of the connection manager (ConnSpec, ManagerSpec)    *)
(***************************************************************************)
\* C33: every connect() call that returns normally returns a connection, also
\* when the caller waited on an attempt that failed, and a getChannel call
\* that leaves such a wait goes on only with a connection to open its channel
\* on.
C33_ConnectReturnsConnection ==
  /\ [](\A p \in Callers :
          (procs[p].pc = "done" /\ procs[p].op = "connect" /\ procs[p].out = "returned")
          => procs[p].res # 0)
  /\ [][ \A p \in Callers :
           (procs[p].pc = "c_wait" /\ procs[p].op = "getChannel"
              /\ procs'[p].pc # "c_wait")
           => connection # 0
       ]_vars

\* C34: a graceful close() leaves the manager disconnected: the closure of the
\* connection that close() asked for schedules no reconnect, and once close()
\* has returned no connection is established by a reconnect timer's attempt.
C34_StaysDisconnectedAfterClose ==
  /\ [][ ( /\ procs[ShutdownProc].pc = "cl_conn"
           /\ procs[ShutdownProc].st = "pending"
           /\ procs'[ShutdownProc].st = "ok" )
         => timers' = timers
       ]_vars
  /\ [][ ( /\ procs[ShutdownProc].pc = "done"
           /\ procs[ShutdownProc].op = "close"
           /\ procs[ShutdownProc].out = "returned"
           /\ connection = 0
           /\ connection' # 0 )
         => procs'[TimerProc] = procs[TimerProc]
       ]_vars

\* the channel is open, getChannel has finished setting it up, and the cache
\* does not hold it under the name it was opened for
Orphaned(c) ==
  /\ chans[c].open
  /\ chans[c].on # ""
  /\ \A p \in Procs : ~(procs[p].pc = "gc_prefetch" /\ procs[p].val = c)
  /\ channels[chans[c].on] # c

\* C35: whatever the interleaving of concurrent getChannel(name) calls, no
\* channel is left open outside the cache, at most one open channel exists per
\* name, and callers that asked for the same name hold the same channel.
C35_OneChannelPerName ==
  /\ \A c \in DOMAIN chans : ~Orphaned(c)
  /\ \A c, d \in DOMAIN chans :
       (chans[c].open /\ chans[d].open /\ chans[c].on # "" /\ chans[c].on = chans[d].on)
       => c = d
  /\ \A p, q \in Getters :
       ( /\ procs[p].pc = "done" /\ procs[p].out = "returned"
         /\ procs[q].pc = "done" /\ procs[q].out = "returned"
         /\ procs[p].name = procs[q].name
         /\ chans[procs[p].res].open /\ chans[procs[q].res].open )
       => procs[p].res = procs[q].res

\* C36: an eviction removes only the channel it is about: when the close or
\* error event of a channel is handled, and when closeChannel(name) resumes
\* after awaiting the close of a channel, a cache entry that holds a different
\* channel stays as it is.
C36_EvictionRemovesOwnChannel ==
  /\ [][ \A c \in DOMAIN chans :
           (chans[c].open /\ ~chans'[c].open)
           => \A n \in Names :
                (channels[n] # 0 /\ channels[n] # c
                   /\ chans[channels[n]].conn \in liveConns')
                => channels'[n] = channels[n]
       ]_vars
  /\ [][ \A p \in Procs :
           (procs[p].pc = "cc_close" /\ procs[p].st # "pending"
              /\ procs'[p].pc # "cc_close")
           => \A n \in Names :
                (channels[n] # 0 /\ channels[n] # procs[p].val)
                => channels'[n] = channels[n]
       ]_vars

\* C37: a call answers 200 with the duplicate indicator for an eventId only
\* when the business handler of that eventId has already completed without
\* error in another call.
C37_DuplicateOnlyAfterSuccess ==
  [][ \A d \in Deliveries :
        (deliveries'[d].dup /\ ~deliveries[d].dup)
        => /\ deliveries'[d].http = 200
           /\ \E h \in Deliveries \ {d} :
                /\ deliveries[h].eventId = deliveries[d].eventId
                /\ deliveries[h].ran
                /\ deliveries[h].err = "none"
                /\ deliveries[h].pc \in {"respond", "done"}
    ]_vars

(***************************************************************************)
(* Further properties of the retrying consumer (ConsumerSpec)              *)
(***************************************************************************)
\* the copies of a message that are ready on queue q
CopiesOn(q, id) == Cardinality({i \in DOMAIN queues[q] : queues[q][i].id = id})

\* the copies of a message on the three queues together
QueuedCopies(id) ==
  CopiesOn(Triple.main, id) + CopiesOn(Triple.retry, id) + CopiesOn(Triple.dlq, id)

\* C38: without crashes a message is in one place at most among the three
\* queues and the consumer's unacknowledged slot, except between its routing
\* and its acknowledgement, when the slot still holds it next to its one queued
\* copy; a handler failure adds the message to exactly one queue, and a message
\* has at most one dead-lettered copy.
C38_OnePlaceAtOnce ==
  /\ [](\A id \in 1..MaxMsgs :
          /\ QueuedCopies(id) <= 1
          /\ CopiesOn(Triple.dlq, id) <= 1
          /\ (Held(id) /\ consumer.pc # "routed") => QueuedCopies(id) = 0
          /\ (Held(id) /\ consumer.pc = "routed") => QueuedCopies(id) = 1)
  /\ [][ (consumer.pc = "handling" /\ consumer'.pc = "routed")
         => LET id == consumer.msg.id
            IN /\ queues'[Triple.main] = queues[Triple.main]
               /\ \/ /\ Len(queues'[Triple.retry]) = Len(queues[Triple.retry]) + 1
                     /\ queues'[Triple.dlq] = queues[Triple.dlq]
                     /\ CopiesOn(Triple.retry, id)' = 1
                  \/ /\ Len(queues'[Triple.dlq]) = Len(queues[Triple.dlq]) + 1
                     /\ queues'[Triple.retry] = queues[Triple.retry]
                     /\ CopiesOn(Triple.dlq, id)' = 1
       ]_vars

\* both messages failed and were routed and acknowledged: one is back on the
\* main queue after its retry delay, the other is dead-lettered, and each is
\* in that one place only
C38_Witness ==
  \E a, b \in 1..MaxMsgs :
    /\ consumer.pc = "idle"
    /\ CopiesOn(Triple.main, a) = 1 /\ QueuedCopies(a) = 1 /\ failures[a] >= 1
    /\ CopiesOn(Triple.dlq, b) = 1 /\ QueuedCopies(b) = 1
    /\ failures[b] = maxRetries + 1

(***************************************************************************)
(* Further properties of the publisher (PubSpec)                           *)
(***************************************************************************)
\* C39: a publish call never ends up suspended for good: whenever a call is
\* in progress, also after the channel it waits on for 'drain' has closed,
\* some step of the publisher or of the channel takes the call further.
C39_DrainWaitTerminates ==
  \A p \in PubProcs :
    pub[p].pc \notin {"idle", "done"} => ENABLED (PubNext /\ pub'[p] # pub[p])

(***************************************************************************)
(* Specifications                                                          *)
(***************************************************************************)
Init == ConnInit /\ WhInit /\ ConsInit /\ PubInit

\* the connection manager with its callers, the broker and the reconnect timer
ConnSpec == Init /\ [][ConnNext]_vars

\* the webhook entry point under concurrent and repeated deliveries
WebhookSpec == Init /\ [][WebhookNext]_vars

\* the event log repository under arbitrary callers
LedgerSpec == Init /\ [][LedgerNext]_vars

\* the retrying consumer over one queue triple
ConsumerSpec == Init /\ [][ConsumerNext]_vars

\* the publisher with its callers and the channel's outbound buffer
PubSpec == Init /\ [][PubNext]_vars

\* the retrying consumer with a bounded number of consumer crashes
ConsumerCrashSpec == Init /\ [][ConsumerCrashNext]_vars

\* the connection manager with its callers, its reconnect timers, its
\* shutdown path and the broker
ManagerSpec == Init /\ [][ManagerNext]_vars

\* getChannel() called by concurrent tasks, with the broker
GetChannelSpec == Init /\ [][GetChannelNext]_vars

\* the consumer under its scheduling assumptions: the broker delivers a ready
\* message to an idle consumer, every handler invocation terminates, the
\* consumer reaches its acknowledgement, and time passes on the retry queue
ConsumerFairSpec ==
  /\ Init
  /\ [][ConsumerNext]_vars
  /\ WF_vars(CDeliver)
  /\ WF_vars(CHandlerOk \/ CHandlerFail)
  /\ WF_vars(CAck)
  /\ WF_vars(CTick)
  /\ WF_vars(CRedeliver)

====
